---------------------------- MODULE Spec2Model ----------------------------
(***************************************************************************)
(* Verdandi: the checkpointed pipeline runner (PipelineRunner), the topic  *)
(* reservation store (TopicReservationManager) and the circuit breaker     *)
(* with its retry loop (CircuitBreaker, with_retry), as state machines.    *)
(*                                                                         *)
(* The module holds several specifications over one set of variables:      *)
(*   SpecRes  - the reservation store driven directly by any workers       *)
(*   SpecDisc - run_discovery_batch by several workers on one store        *)
(*   SpecSlots - run_discovery_batch of several slots by one worker        *)
(*   SpecTwice - run_discovery_batch(1) by two workers in turn, the stage  *)
(*              always returning the same title                            *)
(*   SpecRun  - run_experiment invoked by several workers on one           *)
(*              experiment at any time, with reviews through the API       *)
(*   SpecSeq  - run_experiment one invocation at a time, with process      *)
(*              crashes and review and archive actions in between          *)
(*   SpecLive - SpecSeq with dry_run off and review required throughout    *)
(*   SpecStage - run_experiment with the deep_research stage run through   *)
(*              with_retry and its breaker                                 *)
(*   SpecStageFair - SpecStage under weak fairness of the runner's steps   *)
(*   SpecBrk  - one CircuitBreaker called directly and through with_retry  *)
(*   SpecTry  - with_retry around a function that returns or raises        *)
(*   SpecAll  - run_all_pending over two experiments, with reviews         *)
(*   SpecPar  - run_discovery_batch(1) in one process while another sweeps *)
(*              with run_all_pending                                       *)
(*   SpecSim  - jaccard_similarity applied to pairs of fingerprints        *)
(* A specification leaves the variables of the other parts unchanged.      *)
(***************************************************************************)
EXTENDS Integers, Sequences, FiniteSets, Bags, TLC

VARIABLES
    reservations,   \* table topic_reservations: sequence of rows, id = index
    now,            \* the wall clock, in hours
    resCall,        \* the last TopicReservationManager call and what it returned
    round,          \* a batch of concurrent try_reserve calls on one key
    experiments,    \* table experiments: sequence of rows, id = index
    step_results,   \* table step_results: sequence of rows, id = index
    log,            \* table pipeline_log: the bag of its rows, append only
    run,            \* per worker: its run_experiment invocation
    disc,           \* per worker: its run_discovery_batch invocation
    started,        \* how many invocations have been started
    reviews,        \* how many review and archive actions have been taken
    claimed,        \* history: the reservation row each idea experiment was created under
    breaker,        \* a CircuitBreaker: its _failure_count, _last_failure_time, _is_open
    clock,          \* time.time(), in seconds
    retry,          \* a with_retry invocation
    calls,          \* history of the calls of fn and of the operations on the breaker
    sweep,          \* a run_all_pending invocation
    simCall         \* a jaccard_similarity call: its arguments and what it returned

resVars == <<reservations, now, resCall, round>>
dbVars == <<experiments, step_results, log>>
brkVars == <<breaker, clock, retry, calls>>
procVars == <<run, disc, started, reviews, claimed, brkVars, sweep>>
vars == <<reservations, now, resCall, round, experiments, step_results, log,
          run, disc, started, reviews, claimed, breaker, clock, retry, calls, sweep,
          simCall>>

\* ------------------------------------------------------------------ bounds

NumWorkers == 2
MaxRows == 2
MaxTime == 2

Workers == 1..NumWorkers
None == "none"

\* ------------------------------------------------- topic keys, fingerprints

\* Text is a sequence of one-character strings.
UpperChars ==
    <<"A", "B", "C", "D", "E", "F", "G", "H", "I", "J", "K", "L", "M",
      "N", "O", "P", "Q", "R", "S", "T", "U", "V", "W", "X", "Y", "Z">>
LowerChars ==
    <<"a", "b", "c", "d", "e", "f", "g", "h", "i", "j", "k", "l", "m",
      "n", "o", "p", "q", "r", "s", "t", "u", "v", "w", "x", "y", "z">>
DigitChars == <<"0", "1", "2", "3", "4", "5", "6", "7", "8", "9">>

\* The characters in code point order, as far as [a-z0-9] goes.
AlnumChars == DigitChars \o LowerChars

IndexIn(seq, c) == CHOOSE i \in 1..Len(seq) : seq[i] = c
SeqRange(seq) == {seq[i] : i \in 1..Len(seq)}

LowerChar(c) ==
    IF c \in SeqRange(UpperChars) THEN LowerChars[IndexIn(UpperChars, c)] ELSE c

\* str.lower()
Lower(s) == [i \in 1..Len(s) |-> LowerChar(s[i])]

\* \s
IsSpace(c) == c \in {" ", "\t"}

RECURSIVE LStrip(_)
LStrip(s) == IF s # <<>> /\ IsSpace(Head(s)) THEN LStrip(Tail(s)) ELSE s

RECURSIVE RStrip(_)
RStrip(s) ==
    IF s # <<>> /\ IsSpace(s[Len(s)]) THEN RStrip(SubSeq(s, 1, Len(s) - 1)) ELSE s

\* str.strip()
Strip(s) == RStrip(LStrip(s))

IsAlnum(c) == c \in SeqRange(AlnumChars)
IsKeyChar(c) == IsAlnum(c) \/ IsSpace(c) \/ c = "-"
IsFingerprintChar(c) == IsAlnum(c) \/ IsSpace(c)

\* re.sub(r"\s+", "-", key)
RECURSIVE DashSpaces(_)
DashSpaces(s) ==
    IF s = <<>> THEN <<>>
    ELSE IF IsSpace(Head(s)) THEN <<"-">> \o DashSpaces(LStrip(s))
    ELSE <<Head(s)>> \o DashSpaces(Tail(s))

Prefix(s, n) == SubSeq(s, 1, IF Len(s) < n THEN Len(s) ELSE n)

\* The characters of a text joined into one string.
RECURSIVE Str(_)
Str(s) == IF s = <<>> THEN "" ELSE Head(s) \o Str(Tail(s))

MAX_KEY_LEN == 100

\* normalize_topic_key
NormalizeTopicKey(title) ==
    Str(Prefix(DashSpaces(SelectSeq(Strip(Lower(title)), IsKeyChar)), MAX_KEY_LEN))

STOP_WORDS ==
    {"a", "an", "the", "for", "to", "of", "and", "in", "with", "that", "is", "it",
     "on", "by", "as", "at", "from", "or", "be", "this", "tool", "app", "platform",
     "software", "saas", "product", "service", "use", "using", "can", "will", "way",
     "make", "help", "helps"}

\* The first word of a text that starts with no space, and the rest.
RECURSIVE WordLen(_)
WordLen(s) == IF s = <<>> \/ IsSpace(Head(s)) THEN 0 ELSE 1 + WordLen(Tail(s))

\* str.split(): the words between runs of whitespace
RECURSIVE Words(_)
Words(s) ==
    LET t == LStrip(s) IN
    IF t = <<>> THEN <<>>
    ELSE <<SubSeq(t, 1, WordLen(t))>> \o Words(SubSeq(t, WordLen(t) + 1, Len(t)))

IsKeyword(w) == Str(w) \notin STOP_WORDS /\ Len(w) > 2

Count(ws, w) == Cardinality({i \in 1..Len(ws) : ws[i] = w})
FirstAt(ws, w) == CHOOSE i \in 1..Len(ws) : ws[i] = w /\ \A j \in 1..(i - 1) : ws[j] # w

\* Counter(words).most_common(n): by count, ties in order of first occurrence
MostCommon(ws, n) ==
    LET D == SeqRange(ws)
        Before(u, v) ==
            \/ Count(ws, u) > Count(ws, v)
            \/ Count(ws, u) = Count(ws, v) /\ FirstAt(ws, u) < FirstAt(ws, v)
        Rank(u) == Cardinality({v \in D : Before(v, u)})
    IN {u \in D : Rank(u) < n}

\* Order of two texts as Python compares strings over [a-z0-9].
RECURSIVE TextLess(_, _)
TextLess(u, v) ==
    IF v = <<>> THEN FALSE
    ELSE IF u = <<>> THEN TRUE
    ELSE IF Head(u) = Head(v) THEN TextLess(Tail(u), Tail(v))
    ELSE IndexIn(AlnumChars, Head(u)) < IndexIn(AlnumChars, Head(v))

\* list.sort() of a set of words
RECURSIVE SortedWords(_)
SortedWords(S) ==
    IF S = {} THEN <<>>
    ELSE LET m == CHOOSE u \in S : \A v \in S \ {u} : TextLess(u, v)
         IN <<m>> \o SortedWords(S \ {m})

\* "|".join(words)
RECURSIVE JoinBar(_)
JoinBar(ws) ==
    IF ws = <<>> THEN <<>>
    ELSE IF Len(ws) = 1 THEN ws[1]
    ELSE ws[1] \o <<"|">> \o JoinBar(Tail(ws))

TOP_WORDS == 10

\* idea_fingerprint
IdeaFingerprint(title, description) ==
    LET text == SelectSeq(Lower(title \o <<" ">> \o description), IsFingerprintChar)
        words == SelectSeq(Words(text), IsKeyword)
    IN JoinBar(SortedWords(MostCommon(words, TOP_WORDS)))

\* str.split("|")
RECURSIVE BarLen(_)
BarLen(s) == IF s = <<>> \/ Head(s) = "|" THEN 0 ELSE 1 + BarLen(Tail(s))

RECURSIVE SplitBar(_)
SplitBar(s) ==
    LET n == BarLen(s) IN
    IF n = Len(s) THEN {s}
    ELSE {SubSeq(s, 1, n)} \cup SplitBar(SubSeq(s, n + 2, Len(s)))

TokenSet(fp) == IF fp = <<>> THEN {} ELSE SplitBar(fp)

\* A similarity that divides by the size of the first set.
JaccardOverFirst(fp1, fp2) ==
    LET set1 == TokenSet(fp1)
        set2 == TokenSet(fp2)
    IN IF set1 = {} \/ set2 = {} THEN <<0, 1>>
       ELSE <<Cardinality(set1 \cap set2), Cardinality(set1)>>

\* jaccard_similarity, as the fraction <<numerator, denominator>>
JaccardSimilarity(fp1, fp2) ==
    LET set1 == TokenSet(fp1)
        set2 == TokenSet(fp2)
    IN IF set1 = {} \/ set2 = {} THEN <<0, 1>>
       ELSE <<Cardinality(set1 \cap set2), Cardinality(set1 \cup set2)>>

\* sim >= threshold, the threshold in tenths
AtLeastTenths(sim, tenths) == 10 * sim[1] >= tenths * sim[2]

FINGERPRINT_THRESHOLD_TENTHS == 6

NoFingerprint == <<"<", "n", "u", "l", "l", ">">>

\* find_similar_by_fingerprint: the rows of the given statuses with a
\* fingerprint at least threshold-similar to fp
FindSimilarByFingerprint(rows, fp, tenths, statuses) ==
    {i \in 1..Len(rows) :
        /\ rows[i].status \in statuses
        /\ rows[i].fingerprint # NoFingerprint
        /\ AtLeastTenths(JaccardSimilarity(fp, rows[i].fingerprint), tenths)}

\* The fingerprints jaccard_similarity is applied to: every sorted join of at
\* most MaxFpWords of six one-letter words, as idea_fingerprint builds them,
\* and some texts it never builds (a repeated word, unsorted words, a
\* trailing bar, a lone bar).
MaxFpWords == 4

FpWords == {<<"a">>, <<"b">>, <<"c">>, <<"d">>, <<"e">>, <<"f">>}

Fingerprints ==
    {JoinBar(SortedWords(S)) : S \in {T \in SUBSET FpWords : Cardinality(T) <= MaxFpWords}}
    \cup {<<"a", "|", "a">>, <<"b", "|", "a">>, <<"a", "|">>, <<"|">>}

NoSim == [pc |-> "idle", fp1 |-> <<>>, fp2 |-> <<>>, result |-> <<0, 1>>]

\* One call jaccard_similarity(fp1, fp2) and what it returns.
Similarity(fp1, fp2) ==
    /\ simCall.pc = "idle"
    /\ simCall' = [pc |-> "returned", fp1 |-> fp1, fp2 |-> fp2,
               result |-> JaccardSimilarity(fp1, fp2)]
    /\ UNCHANGED <<resVars, dbVars, procVars>>

NextSim == \E fp1, fp2 \in Fingerprints : Similarity(fp1, fp2)

\* --------------------------------------------------- topic reservations

DEFAULT_TTL_HOURS == 24

\* ttl_hours arguments tried by the direct callers of SpecRes
TtlChoices == {1, 2}

\* The ideas the discovery step comes up with.
WidgetA == <<"W", "i", "d", "g", "e", "t", " ", "A">>
WidgetABang == <<"w", "i", "d", "g", "e", "t", " ", "a", "!">>
Ai4U == <<"A", "I", " ", "4", " ", "U">>

Titles == {WidgetA, WidgetABang, Ai4U}

Candidates == {[title |-> t, one_liner |-> <<>>] : t \in Titles}

TopicKeys == {NormalizeTopicKey(t) : t \in Titles}

ResStatuses == {"active", "expired", "released", "completed"}

\* The rows an UPDATE ... WHERE status = 'active' AND expires_at < now hits.
IsStale(row, t) == row.status = "active" /\ row.expires_at < t

\* A sweep that expires nothing.
ExpireRowsNever(rows, t) == rows

\* A sweep that looks at the expiry only, not at the status.
ExpireRowsAnyStatus(rows, t) ==
    [i \in 1..Len(rows) |->
        IF rows[i].expires_at < t THEN [rows[i] EXCEPT !.status = "expired"]
        ELSE rows[i]]

\* expire_stale's UPDATE, also run inline by try_reserve.
ExpireRows(rows, t) ==
    [i \in 1..Len(rows) |->
        IF IsStale(rows[i], t) THEN [rows[i] EXCEPT !.status = "expired"]
        ELSE rows[i]]

\* try_reserve's SELECT ... WHERE topic_key = k AND status = 'active'
ActiveRowsFor(rows, k) ==
    {i \in 1..Len(rows) : rows[i].topic_key = k /\ rows[i].status = "active"}

\* The partial unique index idx_reservations_active_topic: an INSERT of an
\* active row for k is refused while another active row for k exists.
ActiveIndexAllows(rows, k) == ActiveRowsFor(rows, k) = {}

NewReservation(w, k, fp, t, ttl) ==
    [topic_key |-> k, worker_id |-> w, status |-> "active",
     expires_at |-> t + ttl, fingerprint |-> fp]

\* A try_reserve that skips the check for an existing active row and writes
\* to a table without the partial unique index.
TryReserveNoCheck(rows, w, k, fp, t, ttl) ==
    [ok |-> TRUE, rows |-> Append(ExpireRows(rows, t), NewReservation(w, k, fp, t, ttl))]

\* A try_reserve whose refusal keeps the rows its sweep has expired.
TryReserveKeepsSweep(rows, w, k, fp, t, ttl) ==
    LET swept == ExpireRows(rows, t) IN
    IF ActiveRowsFor(swept, k) # {}
        THEN [ok |-> FALSE, rows |-> swept]
    ELSE [ok |-> TRUE, rows |-> Append(swept, NewReservation(w, k, fp, t, ttl))]

\* try_reserve's transaction (BEGIN IMMEDIATE ... COMMIT | ROLLBACK): what it
\* returns and the table it leaves.
TryReserveTxn(rows, w, k, fp, t, ttl) ==
    LET swept == ExpireRows(rows, t) IN
    IF ActiveRowsFor(swept, k) # {}
        THEN [ok |-> FALSE, rows |-> rows]            \* ROLLBACK undoes the sweep
    ELSE IF ~ActiveIndexAllows(swept, k)
        THEN [ok |-> FALSE, rows |-> rows]            \* IntegrityError, ROLLBACK
    ELSE [ok |-> TRUE, rows |-> Append(swept, NewReservation(w, k, fp, t, ttl))]

\* The rows release and renew update: the caller's own active rows for k.
OwnActive(rows, w, k) ==
    {i \in 1..Len(rows) :
        rows[i].topic_key = k /\ rows[i].worker_id = w /\ rows[i].status = "active"}

\* A release that does not look at the owner.
ReleaseRowsAnyOwner(rows, w, k, completed) ==
    [i \in 1..Len(rows) |->
        IF rows[i].topic_key = k /\ rows[i].status = "active"
            THEN [rows[i] EXCEPT !.status = IF completed THEN "completed" ELSE "released"]
        ELSE rows[i]]

ReleaseRows(rows, w, k, completed) ==
    [i \in 1..Len(rows) |->
        IF i \in OwnActive(rows, w, k)
            THEN [rows[i] EXCEPT !.status = IF completed THEN "completed" ELSE "released"]
        ELSE rows[i]]

RenewRows(rows, w, k, t, ttl) ==
    [i \in 1..Len(rows) |->
        IF i \in OwnActive(rows, w, k)
            THEN [rows[i] EXCEPT !.expires_at = t + ttl]
        ELSE rows[i]]

NoCall == [op |-> None, ret |-> FALSE]
NoRound == [key |-> None, pending |-> {}, ok |-> {}, fail |-> {}]

\* A worker (or the operator, for its own row) calls try_reserve.
TryReserve(w, k, ttl) ==
    /\ round.key = None
    /\ LET r == TryReserveTxn(reservations, w, k, NoFingerprint, now, ttl) IN
        /\ Len(reservations) < MaxRows \/ ~r.ok      \* the table is bounded
        /\ reservations' = r.rows
        /\ resCall' = [op |-> "try_reserve", ret |-> r.ok]
    /\ UNCHANGED <<simCall, now, round, dbVars, procVars>>

Release(w, k, completed) ==
    /\ round.key = None
    /\ reservations' = ReleaseRows(reservations, w, k, completed)
    /\ resCall' = [op |-> "release",
                   ret |-> (Cardinality(OwnActive(reservations, w, k)) = 1)]
    /\ UNCHANGED <<simCall, now, round, dbVars, procVars>>

Renew(w, k, ttl) ==
    /\ round.key = None
    /\ reservations' = RenewRows(reservations, w, k, now, ttl)
    /\ resCall' = [op |-> "renew",
                   ret |-> (Cardinality(OwnActive(reservations, w, k)) = 1)]
    /\ UNCHANGED <<simCall, now, round, dbVars, procVars>>

ExpireStale ==
    /\ round.key = None
    /\ reservations' = ExpireRows(reservations, now)
    /\ resCall' = [op |-> "expire_stale", ret |-> TRUE]
    /\ UNCHANGED <<simCall, now, round, dbVars, procVars>>

\* An hour passes.
Tick ==
    /\ round.key = None
    /\ now < MaxTime
    /\ now' = now + 1
    /\ UNCHANGED <<simCall, reservations, resCall, round, dbVars, procVars>>

\* Every worker issues try_reserve for k at once: the calls' transactions are
\* serialized by BEGIN IMMEDIATE in some order, with nothing in between.
RoundBegin(k) ==
    /\ round.key = None
    /\ ActiveRowsFor(reservations, k) = {}
    /\ Len(reservations) + NumWorkers <= MaxRows + 1
    /\ round' = [key |-> k, pending |-> Workers, ok |-> {}, fail |-> {}]
    /\ UNCHANGED <<simCall, reservations, now, resCall, dbVars, procVars>>

RoundCall(w, ttl) ==
    /\ round.key # None
    /\ w \in round.pending
    /\ LET r == TryReserveTxn(reservations, w, round.key, NoFingerprint, now, ttl) IN
        /\ reservations' = r.rows
        /\ resCall' = [op |-> "try_reserve", ret |-> r.ok]
        /\ round' = [round EXCEPT !.pending = @ \ {w},
                                  !.ok = IF r.ok THEN @ \cup {w} ELSE @,
                                  !.fail = IF r.ok THEN @ ELSE @ \cup {w}]
    /\ UNCHANGED <<simCall, now, dbVars, procVars>>

RoundEnd ==
    /\ round.key # None
    /\ round.pending = {}
    /\ round' = NoRound
    /\ UNCHANGED <<simCall, reservations, now, resCall, dbVars, procVars>>

\* ------------------------------------------------------------ the pipeline

MaxRuns == 2
MaxReviews == 1
LastStep == 6

SCORING == 2
HUMAN_REVIEW == 5

NoStop == 0 - 1
NoStep == 0 - 1

\* get_step_registry(): the registered step numbers, walked in sorted order.
\* The registry is cut after LastStep; the steps above human_review are
\* opaque stages of one shape.
StepNumbers == 0..LastStep

StepName(n) ==
    CASE n = 0 -> "idea_discovery"
      [] n = 1 -> "deep_research"
      [] n = 2 -> "scoring"
      [] n = 3 -> "mvp_definition"
      [] n = 4 -> "landing_page"
      [] n = 5 -> "human_review"
      [] n = 6 -> "domain_purchase"
      [] n = 7 -> "deploy"
      [] n = 8 -> "analytics_setup"
      [] n = 9 -> "distribution"
      [] OTHER -> "monitor"

ExperimentStatuses ==
    {"pending", "running", "awaiting_review", "approved", "rejected",
     "completed", "failed", "archived", "no_go"}

TerminalStatuses == {"completed", "archived", "rejected"}

\* Step results, as far as the orchestrator reads them.
PlainData == [decision |-> None, approved |-> FALSE, skipped |-> FALSE]
ScoringData(d) == [decision |-> d, approved |-> FALSE, skipped |-> FALSE]
ReviewData(a, s) == [decision |-> None, approved |-> a, skipped |-> s]

\* stop_after arguments tried by the callers
StopAfterChoices == {NoStop, 2}

\* (dry_run, require_human_review) of the invoking runner; require_human_review
\* is read only when dry_run is false.
RunnerModes == {<<TRUE, TRUE>>, <<FALSE, TRUE>>, <<FALSE, FALSE>>}

IdleRun ==
    [pc |-> "idle", exp_id |-> 0, dry_run |-> FALSE, require_review |-> TRUE,
     stop_after |-> NoStop, exp_status |-> None, start_from |-> 0, step_num |-> 0,
     result |-> PlainData, outcome |-> None,
     \* history of the invocation, read by the properties only
     entry_status |-> None, entry_step |-> 0, entry_log |-> EmptyBag,
     executed |-> <<>>]

BatchTitle ==
    <<"d", "i", "s", "c", "o", "v", "e", "r", "y", "_", "b", "a", "t", "c", "h">>

InProgressPcs ==
    {"mark_running", "log_pipeline_start", "visit", "log_step_start", "exec",
     "log_step_error", "mark_failed", "save", "advance", "log_step_complete",
     "refresh", "gate_scoring", "mark_nogo", "log_nogo", "mark_awaiting",
     "log_stopped", "mark_completed", "log_pipeline_complete"}

\* Database.update_experiment_status
UpdateExperimentStatus(exps, e, status, cs) ==
    IF e \notin 1..Len(exps) THEN exps
    ELSE [exps EXCEPT ![e] =
            [@ EXCEPT !.status = status,
                      !.current_step = IF cs = NoStep THEN @ ELSE cs]]

\* Database.update_experiment_review
UpdateExperimentReview(exps, e, approved) ==
    IF e \notin 1..Len(exps) THEN exps
    ELSE [exps EXCEPT ![e] =
            [@ EXCEPT !.status = IF approved THEN "approved" ELSE "rejected"]]

\* Database.log_event
LogEvent(l, e, name, ev) ==
    l (+) SetToBag({[experiment_id |-> e, step_name |-> name, event |-> ev]})

ResultRowsFor(rows, e, name) ==
    {i \in 1..Len(rows) : rows[i].experiment_id = e /\ rows[i].step_name = name}

MinOf(S) == CHOOSE i \in S : \A j \in S : i <= j

\* A save that always inserts a fresh row.
SaveStepResultAppends(rows, e, name, num, data) ==
    Append(rows, [experiment_id |-> e, step_name |-> name,
                  step_number |-> num, data |-> data])

\* Database.save_step_result: upsert on (experiment_id, step_name)
SaveStepResult(rows, e, name, num, data) ==
    LET existing == ResultRowsFor(rows, e, name) IN
    IF existing # {}
        THEN [rows EXCEPT ![MinOf(existing)].data = data]
    ELSE Append(rows, [experiment_id |-> e, step_name |-> name,
                       step_number |-> num, data |-> data])

\* Database.get_step_result: the first matching row's data, or NoResult
NoResult == [decision |-> "absent", approved |-> FALSE, skipped |-> FALSE]

GetStepResult(rows, e, name) ==
    LET existing == ResultRowsFor(rows, e, name) IN
    IF existing = {} THEN NoResult ELSE rows[MinOf(existing)].data

\* An is_complete that never finds a result.
IsCompleteNever(rows, e, n) == FALSE

\* AbstractStep.is_complete over the PriorResults the runner pre-loads
IsComplete(rows, e, n) == ResultRowsFor(rows, e, StepName(n)) # {}

\* should_skip: false but for HumanReviewStep
ShouldSkip(n, dry, req, status) ==
    IF StepName(n) = "human_review"
        THEN dry \/ ~req \/ status = "approved"
    ELSE FALSE

\* HumanReviewStep.run
HumanReviewRun(dry, req, status) ==
    IF dry \/ ~req THEN ReviewData(TRUE, TRUE)
    ELSE IF status = "approved" THEN ReviewData(TRUE, FALSE)
    ELSE ReviewData(FALSE, FALSE)

\* What a step's run can return.
StepOutputs(n, dry, req, status) ==
    IF StepName(n) = "human_review" THEN {HumanReviewRun(dry, req, status)}
    ELSE IF StepName(n) = "scoring" THEN {ScoringData("go"), ScoringData("no_go")}
    ELSE {PlainData}

\* A resume that always starts at the first stage.
StartFromOne(cs) == 1

\* start_from = max(exp.current_step, 1) if exp.current_step > 0 else 1
StartFrom(cs) == IF cs > 0 THEN (IF cs > 1 THEN cs ELSE 1) ELSE 1

\* A loop that walks every registered step from n on.
NextWalkedAll(n, start_from) ==
    LET S == {m \in StepNumbers : m >= n} IN
    IF S = {} THEN LastStep + 1 ELSE MinOf(S)

\* The loop's next step number at or after n that is neither below
\* start_from nor 0; LastStep + 1 when the loop is exhausted.
NextWalked(n, start_from) ==
    LET S == {m \in StepNumbers : m >= n /\ m >= start_from /\ m # 0} IN
    IF S = {} THEN LastStep + 1 ELSE MinOf(S)

SetRun(w, r) == run' = [run EXCEPT ![w] = r]

\* A loop that comes back to the step it is at.
ContinueRepeats(r) == [r EXCEPT !.pc = "visit"]

\* The loop moves on from step r.step_num.
Continue(r) ==
    LET n == NextWalked(r.step_num + 1, r.start_from) IN
    IF n > LastStep THEN [r EXCEPT !.pc = "mark_completed", !.step_num = n]
    ELSE [r EXCEPT !.pc = "visit", !.step_num = n]

\* A review gate that pauses on nothing.
ReviewGateNever(r) == FALSE

\* The human review gate: the step is human_review and its result is
\* neither approved nor skipped.
ReviewGate(r) ==
    /\ StepName(r.step_num) = "human_review"
    /\ ~r.result.approved
    /\ ~r.result.skipped

\* Gates that take no notice of stop_after.
AfterScoringGateNoStop(r) ==
    IF ReviewGate(r) THEN [r EXCEPT !.pc = "mark_awaiting"]
    ELSE Continue(r)

\* The gates after the scoring gate: human review, then stop_after.
AfterScoringGate(r) ==
    IF ReviewGate(r) THEN [r EXCEPT !.pc = "mark_awaiting"]
    ELSE IF r.stop_after # NoStop /\ r.step_num >= r.stop_after
        THEN [r EXCEPT !.pc = "log_stopped"]
    ELSE Continue(r)

\* A terminal check that lets every status through.
IsTerminalNever(status) == FALSE

IsTerminal(status) == status \in TerminalStatuses

\* An awaiting_review check that blocks nobody.
BlockedByReviewNever(status, dry) == FALSE

BlockedByReview(status, dry) == status = "awaiting_review" /\ ~dry

\* run_experiment up to start_from: load the experiment, return at once on a
\* missing, terminal or awaiting_review experiment.
Load(w, e, mode, stop) ==
    /\ run[w].pc \in {"idle", "done", "crashed"}
    /\ started < MaxRuns
    /\ started' = started + 1
    /\ LET r0 == [IdleRun EXCEPT !.exp_id = e, !.dry_run = mode[1],
                                 !.require_review = mode[2], !.stop_after = stop,
                                 !.entry_log = log]
       IN
       IF e \notin 1..Len(experiments)
           THEN SetRun(w, [r0 EXCEPT !.pc = "done", !.outcome = "not_found"])
       ELSE LET exp == experiments[e]
                r1 == [r0 EXCEPT !.exp_status = exp.status,
                                 !.entry_status = exp.status,
                                 !.entry_step = exp.current_step]
            IN
            IF IsTerminal(exp.status) \/ BlockedByReview(exp.status, mode[1])
                THEN SetRun(w, [r1 EXCEPT !.pc = "done", !.outcome = "noop"])
            ELSE SetRun(w, [r1 EXCEPT !.pc = "mark_running",
                                      !.start_from = StartFrom(exp.current_step)])
    /\ UNCHANGED <<simCall, resVars, dbVars, disc, reviews, claimed, brkVars>>

MarkRunning(w) ==
    /\ run[w].pc = "mark_running"
    /\ experiments' = UpdateExperimentStatus(experiments, run[w].exp_id, "running", NoStep)
    /\ SetRun(w, [run[w] EXCEPT !.pc = "log_pipeline_start"])
    /\ UNCHANGED <<simCall, resVars, step_results, log, disc, started, reviews, claimed, brkVars,
                   sweep>>

LogPipelineStart(w) ==
    /\ run[w].pc = "log_pipeline_start"
    /\ log' = LogEvent(log, run[w].exp_id, "", "pipeline_start")
    /\ LET n == NextWalked(0, run[w].start_from) IN
        SetRun(w, [run[w] EXCEPT !.pc = IF n > LastStep THEN "mark_completed" ELSE "visit",
                                 !.step_num = n])
    /\ UNCHANGED <<simCall, resVars, experiments, step_results, disc, started, reviews, claimed,
                   brkVars, sweep>>

\* One iteration of the loop up to the step's execution: load the prior
\* results, skip a complete or skipped step.
Visit(w) ==
    /\ run[w].pc = "visit"
    /\ LET r == run[w] IN
        IF \/ IsComplete(step_results, r.exp_id, r.step_num)
           \/ ShouldSkip(r.step_num, r.dry_run, r.require_review, r.exp_status)
            THEN SetRun(w, Continue(r))
        ELSE SetRun(w, [r EXCEPT !.pc = "log_step_start"])
    /\ UNCHANGED <<simCall, resVars, dbVars, disc, started, reviews, claimed, brkVars, sweep>>

LogStepStart(w) ==
    /\ run[w].pc = "log_step_start"
    /\ log' = LogEvent(log, run[w].exp_id, StepName(run[w].step_num), "step_start")
    /\ SetRun(w, [run[w] EXCEPT !.pc = "exec"])
    /\ UNCHANGED <<simCall, resVars, experiments, step_results, disc, started, reviews, claimed,
                   brkVars, sweep>>

\* with_retry(breaker.call(step.run)) returns a result.
StepSucceeds(w) ==
    /\ run[w].pc = "exec"
    /\ LET r == run[w] IN
        \E data \in StepOutputs(r.step_num, r.dry_run, r.require_review, r.exp_status) :
            SetRun(w, [r EXCEPT !.pc = "save", !.result = data,
                                !.executed = Append(@, r.step_num)])
    /\ UNCHANGED <<simCall, resVars, dbVars, disc, started, reviews, claimed, brkVars, sweep>>

\* with_retry(breaker.call(step.run)) raises; HumanReviewStep.run raises nothing.
StepFails(w) ==
    /\ run[w].pc = "exec"
    /\ StepName(run[w].step_num) # "human_review"
    /\ SetRun(w, [run[w] EXCEPT !.pc = "log_step_error",
                                !.executed = Append(@, run[w].step_num)])
    /\ UNCHANGED <<simCall, resVars, dbVars, disc, started, reviews, claimed, brkVars, sweep>>

LogStepError(w) ==
    /\ run[w].pc = "log_step_error"
    /\ log' = LogEvent(log, run[w].exp_id, StepName(run[w].step_num), "step_error")
    /\ SetRun(w, [run[w] EXCEPT !.pc = "mark_failed"])
    /\ UNCHANGED <<simCall, resVars, experiments, step_results, disc, started, reviews, claimed,
                   brkVars, sweep>>

\* A failure handler that records the status and leaves current_step alone.
MarkFailedKeepsStep(w) ==
    /\ run[w].pc = "mark_failed"
    /\ experiments' = UpdateExperimentStatus(experiments, run[w].exp_id, "failed", NoStep)
    /\ SetRun(w, [run[w] EXCEPT !.pc = "done", !.outcome = "raised"])
    /\ UNCHANGED <<simCall, resVars, step_results, log, disc, started, reviews, claimed, brkVars,
                   sweep>>

MarkFailed(w) ==
    /\ run[w].pc = "mark_failed"
    /\ experiments' = UpdateExperimentStatus(experiments, run[w].exp_id, "failed", run[w].step_num)
    /\ SetRun(w, [run[w] EXCEPT !.pc = "done", !.outcome = "raised"])
    /\ UNCHANGED <<simCall, resVars, step_results, log, disc, started, reviews, claimed, brkVars,
                   sweep>>

Save(w) ==
    /\ run[w].pc = "save"
    /\ step_results' = SaveStepResult(step_results, run[w].exp_id,
                                      StepName(run[w].step_num), run[w].step_num,
                                      run[w].result)
    /\ SetRun(w, [run[w] EXCEPT !.pc = "advance"])
    /\ UNCHANGED <<simCall, resVars, experiments, log, disc, started, reviews, claimed, brkVars, sweep>>

Advance(w) ==
    /\ run[w].pc = "advance"
    /\ experiments' = UpdateExperimentStatus(experiments, run[w].exp_id, "running", run[w].step_num)
    /\ SetRun(w, [run[w] EXCEPT !.pc = "log_step_complete"])
    /\ UNCHANGED <<simCall, resVars, step_results, log, disc, started, reviews, claimed, brkVars,
                   sweep>>

LogStepComplete(w) ==
    /\ run[w].pc = "log_step_complete"
    /\ log' = LogEvent(log, run[w].exp_id, StepName(run[w].step_num), "step_complete")
    /\ SetRun(w, [run[w] EXCEPT !.pc = "refresh"])
    /\ UNCHANGED <<simCall, resVars, experiments, step_results, disc, started, reviews, claimed,
                   brkVars, sweep>>

\* exp = get_experiment(...), then the gates that read no more of the store
Refresh(w) ==
    /\ run[w].pc = "refresh"
    /\ LET r == [run[w] EXCEPT !.exp_status = experiments[run[w].exp_id].status] IN
        IF StepName(r.step_num) = "scoring"
            THEN SetRun(w, [r EXCEPT !.pc = "gate_scoring"])
        ELSE SetRun(w, AfterScoringGate(r))
    /\ UNCHANGED <<simCall, resVars, dbVars, disc, started, reviews, claimed, brkVars, sweep>>

\* The scoring gate reads the persisted scoring result.
GateScoring(w) ==
    /\ run[w].pc = "gate_scoring"
    /\ LET r == run[w] IN
        IF GetStepResult(step_results, r.exp_id, "scoring").decision = "no_go"
            THEN SetRun(w, [r EXCEPT !.pc = "mark_nogo"])
        ELSE SetRun(w, AfterScoringGate(r))
    /\ UNCHANGED <<simCall, resVars, dbVars, disc, started, reviews, claimed, brkVars, sweep>>

MarkNoGo(w) ==
    /\ run[w].pc = "mark_nogo"
    /\ experiments' = UpdateExperimentStatus(experiments, run[w].exp_id, "no_go", run[w].step_num)
    /\ SetRun(w, [run[w] EXCEPT !.pc = "log_nogo"])
    /\ UNCHANGED <<simCall, resVars, step_results, log, disc, started, reviews, claimed, brkVars,
                   sweep>>

LogNoGo(w) ==
    /\ run[w].pc = "log_nogo"
    /\ log' = LogEvent(log, run[w].exp_id, "", "pipeline_nogo")
    /\ SetRun(w, [run[w] EXCEPT !.pc = "done", !.outcome = "no_go"])
    /\ UNCHANGED <<simCall, resVars, experiments, step_results, disc, started, reviews, claimed,
                   brkVars, sweep>>

MarkAwaiting(w) ==
    /\ run[w].pc = "mark_awaiting"
    /\ experiments' = UpdateExperimentStatus(experiments, run[w].exp_id,
                                             "awaiting_review", run[w].step_num)
    /\ SetRun(w, [run[w] EXCEPT !.pc = "done", !.outcome = "awaiting_review"])
    /\ UNCHANGED <<simCall, resVars, step_results, log, disc, started, reviews, claimed, brkVars,
                   sweep>>

LogStopped(w) ==
    /\ run[w].pc = "log_stopped"
    /\ log' = LogEvent(log, run[w].exp_id, "", "pipeline_stopped")
    /\ SetRun(w, [run[w] EXCEPT !.pc = "done", !.outcome = "stopped"])
    /\ UNCHANGED <<simCall, resVars, experiments, step_results, disc, started, reviews, claimed,
                   brkVars, sweep>>

MarkCompleted(w) ==
    /\ run[w].pc = "mark_completed"
    /\ experiments' = UpdateExperimentStatus(experiments, run[w].exp_id, "completed", NoStep)
    /\ SetRun(w, [run[w] EXCEPT !.pc = "log_pipeline_complete"])
    /\ UNCHANGED <<simCall, resVars, step_results, log, disc, started, reviews, claimed, brkVars,
                   sweep>>

LogPipelineComplete(w) ==
    /\ run[w].pc = "log_pipeline_complete"
    /\ log' = LogEvent(log, run[w].exp_id, "", "pipeline_complete")
    /\ SetRun(w, [run[w] EXCEPT !.pc = "done", !.outcome = "completed"])
    /\ UNCHANGED <<simCall, resVars, experiments, step_results, disc, started, reviews, claimed,
                   brkVars, sweep>>

\* The worker process dies inside run_experiment.
Crash(w) ==
    /\ run[w].pc \in InProgressPcs
    /\ SetRun(w, [IdleRun EXCEPT !.pc = "crashed", !.exp_id = run[w].exp_id,
                                 !.outcome = "crashed"])
    /\ UNCHANGED <<simCall, resVars, dbVars, disc, started, reviews, claimed, brkVars, sweep>>

\* POST /reviews/{id}: only an experiment awaiting review
SubmitReview(e, approved) ==
    /\ reviews < MaxReviews
    /\ e \in 1..Len(experiments)
    /\ experiments[e].status = "awaiting_review"
    /\ experiments' = UpdateExperimentReview(experiments, e, approved)
    /\ reviews' = reviews + 1
    /\ UNCHANGED <<simCall, resVars, step_results, log, run, disc, started, claimed, brkVars, sweep>>

\* cli review: any experiment
CliReview(e, approved) ==
    /\ reviews < MaxReviews
    /\ e \in 1..Len(experiments)
    /\ experiments' = UpdateExperimentReview(experiments, e, approved)
    /\ reviews' = reviews + 1
    /\ UNCHANGED <<simCall, resVars, step_results, log, run, disc, started, claimed, brkVars, sweep>>

\* cli archive
Archive(e) ==
    /\ reviews < MaxReviews
    /\ e \in 1..Len(experiments)
    /\ experiments' = UpdateExperimentStatus(experiments, e, "archived", NoStep)
    /\ reviews' = reviews + 1
    /\ UNCHANGED <<simCall, resVars, step_results, log, run, disc, started, claimed, brkVars, sweep>>

\* ------------------------------------------------------ the discovery batch

MaxIdeas == 1
MaxBatches == 2

MAX_DEDUP_RETRIES == 3

NoIdea == [title |-> <<>>, one_liner |-> <<>>]

IdleDisc ==
    [pc |-> "idle", max_ideas |-> 0, temp_exp |-> 0, idea_slot |-> 0, attempt |-> 0,
     idea |-> NoIdea, fp |-> <<>>, reserved_row |-> 0, exp_id |-> 0,
     experiment_ids |-> <<>>, outcome |-> None]

DiscInProgressPcs ==
    {"log_discovery_start", "discover", "dedup", "reserve", "create_experiment",
     "save_idea", "log_idea_created", "mark_batch_completed"}

\* Database.create_experiment: a new row, its id the next one
CreateExperimentRow(exps, title) ==
    Append(exps, [title |-> title, status |-> "pending", current_step |-> 0])

SetDisc(w, d) == disc' = [disc EXCEPT ![w] = d]

\* for idea_slot in range(max_ideas): the loop moves to the next slot
NextSlot(d) ==
    LET d1 == [d EXCEPT !.idea_slot = @ + 1, !.attempt = 0, !.idea = NoIdea,
                        !.fp = <<>>, !.reserved_row = 0, !.exp_id = 0]
    IN
    IF d1.idea_slot >= d.max_ideas THEN [d1 EXCEPT !.pc = "mark_batch_completed"]
    ELSE [d1 EXCEPT !.pc = "discover"]

\* The mutant of NextAttempt: the slot is never given up.
NextAttemptForever(d) ==
    [d EXCEPT !.pc = "discover", !.attempt = @ + 1, !.idea = NoIdea, !.fp = <<>>]

\* The mutant of NextAttempt: the slot is given up at the first failure.
NextAttemptGivesUp(d) == NextSlot(d)

\* for attempt in range(_MAX_DEDUP_RETRIES + 1): continue; the slot is given
\* up (idea is None) when the attempts are used up
NextAttempt(d) ==
    IF d.attempt + 1 > MAX_DEDUP_RETRIES THEN NextSlot(d)
    ELSE [d EXCEPT !.pc = "discover", !.attempt = @ + 1, !.idea = NoIdea, !.fp = <<>>]

\* run_discovery_batch up to the bookkeeping experiment
BatchStart(w, max_ideas) ==
    /\ disc[w].pc \in {"idle", "done"}
    /\ started < MaxBatches
    /\ started' = started + 1
    /\ experiments' = CreateExperimentRow(experiments, BatchTitle)
    /\ SetDisc(w, [IdleDisc EXCEPT !.pc = "log_discovery_start", !.max_ideas = max_ideas,
                                   !.temp_exp = Len(experiments) + 1])
    /\ UNCHANGED <<simCall, resVars, step_results, log, run, reviews, claimed, brkVars, sweep>>

LogDiscoveryStart(w) ==
    /\ disc[w].pc = "log_discovery_start"
    /\ log' = LogEvent(log, disc[w].temp_exp, "", "discovery_start")
    /\ SetDisc(w, [disc[w] EXCEPT !.pc = "discover"])
    /\ UNCHANGED <<simCall, resVars, experiments, step_results, run, started, reviews, claimed,
                   brkVars, sweep>>

\* step.run(ctx) returns a candidate
Discover(w, c) ==
    /\ disc[w].pc = "discover"
    /\ SetDisc(w, [disc[w] EXCEPT !.pc = "dedup", !.idea = c,
                                  !.fp = IdeaFingerprint(c.title, c.one_liner)])
    /\ UNCHANGED <<simCall, resVars, dbVars, run, started, reviews, claimed, brkVars, sweep>>

\* step.run(ctx) raises: nothing in the batch catches it
DiscoverRaises(w) ==
    /\ disc[w].pc = "discover"
    /\ SetDisc(w, [disc[w] EXCEPT !.pc = "done", !.outcome = "raised"])
    /\ UNCHANGED <<simCall, resVars, dbVars, run, started, reviews, claimed, brkVars, sweep>>

\* The two dedup passes: the fingerprint search over active and completed
\* reservations, then the embedding search, whose answer is the vector
\* memory's to give.
Dedup(w, semantic_dup) ==
    /\ disc[w].pc = "dedup"
    /\ LET d == disc[w]
           fp_matches == FindSimilarByFingerprint(reservations, d.fp,
                                                  FINGERPRINT_THRESHOLD_TENTHS,
                                                  {"active", "completed"})
       IN
       IF fp_matches # {} \/ semantic_dup THEN SetDisc(w, NextAttempt(d))
       ELSE SetDisc(w, [d EXCEPT !.pc = "reserve"])
    /\ UNCHANGED <<simCall, resVars, dbVars, run, started, reviews, claimed, brkVars, sweep>>

\* mgr.try_reserve(...) and the branch on its answer
Reserve(w) ==
    /\ disc[w].pc = "reserve"
    /\ LET d == disc[w]
           r == TryReserveTxn(reservations, w, NormalizeTopicKey(d.idea.title), d.fp,
                              now, DEFAULT_TTL_HOURS)
       IN
       /\ reservations' = r.rows
       /\ resCall' = [op |-> "try_reserve", ret |-> r.ok]
       /\ IF r.ok THEN SetDisc(w, [d EXCEPT !.pc = "create_experiment",
                                            !.reserved_row = Len(r.rows)])
          ELSE SetDisc(w, NextAttempt(d))
    /\ UNCHANGED <<simCall, now, round, dbVars, run, started, reviews, claimed, brkVars, sweep>>

CreateExperiment(w) ==
    /\ disc[w].pc = "create_experiment"
    /\ experiments' = CreateExperimentRow(experiments, disc[w].idea.title)
    /\ claimed' = Append(claimed, [exp_id |-> Len(experiments) + 1,
                                   row |-> disc[w].reserved_row, worker |-> w])
    /\ SetDisc(w, [disc[w] EXCEPT !.pc = "save_idea", !.exp_id = Len(experiments) + 1])
    /\ UNCHANGED <<simCall, resVars, step_results, log, run, started, reviews, brkVars, sweep>>

SaveIdea(w) ==
    /\ disc[w].pc = "save_idea"
    /\ step_results' = SaveStepResult(step_results, disc[w].exp_id, "idea_discovery",
                                      0, PlainData)
    /\ SetDisc(w, [disc[w] EXCEPT !.pc = "log_idea_created"])
    /\ UNCHANGED <<simCall, resVars, experiments, log, run, started, reviews, claimed, brkVars, sweep>>

LogIdeaCreated(w) ==
    /\ disc[w].pc = "log_idea_created"
    /\ log' = LogEvent(log, disc[w].exp_id, "", "idea_created")
    /\ SetDisc(w, NextSlot([disc[w] EXCEPT !.experiment_ids = Append(@, disc[w].exp_id)]))
    /\ UNCHANGED <<simCall, resVars, experiments, step_results, run, started, reviews, claimed,
                   brkVars, sweep>>

MarkBatchCompleted(w) ==
    /\ disc[w].pc = "mark_batch_completed"
    /\ experiments' = UpdateExperimentStatus(experiments, disc[w].temp_exp,
                                             "completed", NoStep)
    /\ SetDisc(w, [disc[w] EXCEPT !.pc = "done", !.outcome = "returned"])
    /\ UNCHANGED <<simCall, resVars, step_results, log, run, started, reviews, claimed, brkVars, sweep>>

NoBatchInProgress == \A w \in Workers : disc[w].pc \notin DiscInProgressPcs

\* The default TTL runs out while no batch is under way; a batch itself is
\* over within hours.
TtlPasses ==
    /\ NoBatchInProgress
    /\ now < MaxTime
    /\ now' = now + DEFAULT_TTL_HOURS + 1
    /\ UNCHANGED <<simCall, reservations, resCall, round, dbVars, procVars>>

DiscStep(w) ==
    \/ LogDiscoveryStart(w)
    \/ \E c \in Candidates : Discover(w, c)
    \/ DiscoverRaises(w)
    \/ \E semantic_dup \in BOOLEAN : Dedup(w, semantic_dup)
    \/ Reserve(w)
    \/ CreateExperiment(w)
    \/ SaveIdea(w)
    \/ LogIdeaCreated(w)
    \/ MarkBatchCompleted(w)

NextDisc ==
    \/ \E w \in Workers, max_ideas \in 1..MaxIdeas : BatchStart(w, max_ideas)
    \/ \E w \in Workers : DiscStep(w)
    \/ TtlPasses

\* ------------------------------------------- the circuit breaker, with_retry

MaxCalls == 7
MaxClock == 122

FAILURE_THRESHOLD == 5
RESET_TIMEOUT == 60
MAX_RETRIES == 3
BASE_DELAY == 1
MAX_DELAY == 60

\* CircuitBreaker(): the dataclass defaults of its three private fields.
NewBreaker == [failure_count |-> 0, last_failure_time |-> 0, is_open |-> FALSE]

IdleRetry == [pc |-> "idle", attempt |-> 0, outcome |-> None]

\* History: seq numbers the operations on the breaker, streak counts the
\* invocations of fn that failed since the last one that succeeded and since
\* the last automatic reset, failures counts all that failed, resets counts
\* the automatic resets, last is the last operation.
NoCalls == [seq |-> 0, streak |-> 0, failures |-> 0, resets |-> 0,
            last |-> [op |-> None, result |-> None, invoked |-> FALSE]]

IdleSweep ==
    [pc |-> "idle", mode |-> <<FALSE, TRUE>>, stop_after |-> NoStop, todo |-> <<>>,
     \* history of the invocation, read by the properties only
     listed |-> <<>>, called |-> <<>>, caught |-> <<>>]

InitBrk ==
    /\ breaker = NewBreaker
    /\ clock = 0
    /\ retry = IdleRetry
    /\ calls = NoCalls

\* The mutant of IsOpen: the flag as it stands, never reset by time.
IsOpenNoReset(b, t) == [b |-> b, open |-> b.is_open, reset |-> FALSE]

\* A reset by time that closes the breaker and keeps the count.
IsOpenKeepsCount(b, t) ==
    IF b.is_open /\ (t - b.last_failure_time) > RESET_TIMEOUT
    THEN [b |-> [b EXCEPT !.is_open = FALSE], open |-> FALSE, reset |-> TRUE]
    ELSE [b |-> b, open |-> b.is_open, reset |-> FALSE]

\* The property is_open read at time t: the breaker it leaves and its value.
IsOpen(b, t) ==
    IF b.is_open /\ (t - b.last_failure_time) > RESET_TIMEOUT
    THEN [b |-> [b EXCEPT !.is_open = FALSE, !.failure_count = 0],
          open |-> FALSE, reset |-> TRUE]
    ELSE [b |-> b, open |-> b.is_open, reset |-> FALSE]

\* The mutant of RecordSuccess: closes the breaker but keeps the count.
RecordSuccessKeepsCount(b) == [b EXCEPT !.is_open = FALSE]

RecordSuccess(b) == [b EXCEPT !.failure_count = 0, !.is_open = FALSE]

\* The mutant of RecordFailure: opens only above the threshold.
RecordFailureAbove(b, t) ==
    [failure_count |-> b.failure_count + 1,
     last_failure_time |-> t,
     is_open |-> b.is_open \/ b.failure_count + 1 > FAILURE_THRESHOLD]

RecordFailure(b, t) ==
    [failure_count |-> b.failure_count + 1,
     last_failure_time |-> t,
     is_open |-> b.is_open \/ b.failure_count + 1 >= FAILURE_THRESHOLD]

\* A call that invokes fn whether the breaker is open or not.
BreakerCallInvokesOpen(b, t, fn_ok) ==
    LET chk == IsOpen(b, t) IN
    IF fn_ok
    THEN [b |-> RecordSuccess(chk.b), result |-> "ok",
          invoked |-> TRUE, reset |-> chk.reset]
    ELSE [b |-> RecordFailure(chk.b, t), result |-> "fail",
          invoked |-> TRUE, reset |-> chk.reset]

\* CircuitBreaker.call(fn) at time t, fn returning (fn_ok) or raising: the
\* breaker it leaves, what the caller sees, and whether fn was invoked.
BreakerCall(b, t, fn_ok) ==
    LET chk == IsOpen(b, t) IN
    IF chk.open
    THEN [b |-> chk.b, result |-> "open", invoked |-> FALSE, reset |-> chk.reset]
    ELSE IF fn_ok
         THEN [b |-> RecordSuccess(chk.b), result |-> "ok",
               invoked |-> TRUE, reset |-> chk.reset]
         ELSE [b |-> RecordFailure(chk.b, t), result |-> "fail",
               invoked |-> TRUE, reset |-> chk.reset]

\* The history after an operation on the breaker.
Recorded(c, op, r) ==
    LET base == IF r.reset THEN 0 ELSE c.streak IN
    [seq |-> c.seq + 1,
     streak |-> IF r.result = "ok" THEN 0
                ELSE IF r.result = "fail" THEN base + 1 ELSE base,
     failures |-> c.failures + (IF r.result = "fail" THEN 1 ELSE 0),
     resets |-> c.resets + (IF r.reset THEN 1 ELSE 0),
     last |-> [op |-> op, result |-> r.result, invoked |-> r.invoked]]

\* breaker.call(fn) made directly.
Call(fn_ok) ==
    /\ retry.pc = "idle"
    /\ calls.seq < MaxCalls
    /\ LET r == BreakerCall(breaker, clock, fn_ok) IN
        /\ breaker' = r.b
        /\ calls' = Recorded(calls, "call", r)
    /\ UNCHANGED <<simCall, resVars, dbVars, run, disc, started, reviews, claimed, clock, retry, sweep>>

\* breaker.is_open read directly.
CheckIsOpen ==
    /\ retry.pc = "idle"
    /\ calls.seq < MaxCalls
    /\ LET chk == IsOpen(breaker, clock) IN
        /\ breaker' = chk.b
        /\ calls' = Recorded(calls, "is_open",
                             [result |-> IF chk.open THEN "open" ELSE "closed",
                              invoked |-> FALSE, reset |-> chk.reset])
    /\ UNCHANGED <<simCall, resVars, dbVars, run, disc, started, reviews, claimed, clock, retry, sweep>>

\* Time that passes between calls: the timeout exactly, and just over it.
TimeChoices == {RESET_TIMEOUT, RESET_TIMEOUT + 1}

TimePasses(d) ==
    /\ clock + d <= MaxClock
    /\ clock' = clock + d
    /\ UNCHANGED <<simCall, resVars, dbVars, run, disc, started, reviews, claimed,
                   breaker, retry, calls, sweep>>

\* with_retry(fn=lambda: breaker.call(step.run), max_retries=MAX_RETRIES),
\* as run_experiment calls it for a stage.
RetryStart ==
    /\ retry.pc = "idle"
    /\ calls.seq < MaxCalls
    /\ retry' = [pc |-> "attempt", attempt |-> 0, outcome |-> None]
    /\ UNCHANGED <<simCall, resVars, dbVars, run, disc, started, reviews, claimed,
                   breaker, clock, calls, sweep>>

\* The mutant of RetryAttempt: fn is invoked outside the breaker.
RetryAttemptUnguarded(fn_ok) ==
    /\ retry.pc = "attempt"
    /\ calls' = Recorded(calls, "call",
                         [result |-> IF fn_ok THEN "ok" ELSE "fail",
                          invoked |-> TRUE, reset |-> FALSE])
    /\ retry' = IF fn_ok THEN [retry EXCEPT !.pc = "idle", !.outcome = "returned"]
                ELSE IF retry.attempt = MAX_RETRIES
                     THEN [retry EXCEPT !.pc = "idle", !.outcome = "exhausted"]
                     ELSE [retry EXCEPT !.pc = "sleep"]
    /\ UNCHANGED <<simCall, resVars, dbVars, run, disc, started, reviews, claimed,
                   breaker, clock, sweep>>

\* One pass of the loop of with_retry: the call through the breaker, then
\* return, or break after the last attempt, or go to sleep.
RetryAttempt(fn_ok) ==
    /\ retry.pc = "attempt"
    /\ LET r == BreakerCall(breaker, clock, fn_ok) IN
        /\ breaker' = r.b
        /\ calls' = Recorded(calls, "call", r)
        /\ retry' = IF r.result = "ok"
                    THEN [retry EXCEPT !.pc = "idle", !.outcome = "returned"]
                    ELSE IF retry.attempt = MAX_RETRIES
                         THEN [retry EXCEPT !.pc = "idle", !.outcome = "exhausted"]
                         ELSE [retry EXCEPT !.pc = "sleep"]
    /\ UNCHANGED <<simCall, resVars, dbVars, run, disc, started, reviews, claimed, clock, sweep>>

\* delay = min(base_delay * 2**attempt, max_delay) * (0.5 + random()), in
\* whole seconds: the two ends of the interval.
SleepChoices(attempt) ==
    LET delay == IF BASE_DELAY * 2^attempt < MAX_DELAY
                 THEN BASE_DELAY * 2^attempt ELSE MAX_DELAY IN
    {delay \div 2, (3 * delay) \div 2}

RetrySleep(d) ==
    /\ retry.pc = "sleep"
    /\ d \in SleepChoices(retry.attempt)
    /\ clock' = clock + d
    /\ retry' = [retry EXCEPT !.pc = "attempt", !.attempt = retry.attempt + 1]
    /\ UNCHANGED <<simCall, resVars, dbVars, run, disc, started, reviews, claimed,
                   breaker, calls, sweep>>

NextBrk ==
    \/ \E fn_ok \in BOOLEAN : Call(fn_ok)
    \/ CheckIsOpen
    \/ \E d \in TimeChoices : TimePasses(d)
    \/ RetryStart
    \/ \E fn_ok \in BOOLEAN : RetryAttempt(fn_ok)
    \/ \E d \in 0..((3 * MAX_DELAY) \div 2) : RetrySleep(d)

\* What one invocation of fn does: returns, raises an error of a retryable
\* kind, or raises an error of another kind.
FnResults == {"ok", "retryable", "other"}

\* The mutant of WithRetryStep: gives up at the first failure.
WithRetryStepNoRetry(r, fn_result) ==
    [r EXCEPT !.pc = "idle", !.invoked = r.invoked + 1,
              !.outcome = IF fn_result = "ok" THEN "returned" ELSE "raised",
              !.error = IF fn_result = "ok" THEN r.error ELSE fn_result]

\* The mutant of WithRetryStep: one attempt more before giving up.
WithRetryStepOneMore(r, fn_result) ==
    IF fn_result = "ok"
    THEN [r EXCEPT !.pc = "idle", !.outcome = "returned", !.invoked = r.invoked + 1]
    ELSE IF fn_result = "other"
         THEN [r EXCEPT !.pc = "idle", !.outcome = "raised", !.error = "other",
                        !.invoked = r.invoked + 1]
         ELSE IF r.attempt = r.max_retries + 1
              THEN [r EXCEPT !.pc = "idle", !.outcome = "exhausted",
                             !.error = "retryable", !.invoked = r.invoked + 1]
              ELSE [r EXCEPT !.pc = "sleep", !.error = "retryable",
                             !.invoked = r.invoked + 1]

\* The mutant of WithRetryStep: every error is retried.
WithRetryStepRetriesAll(r, fn_result) ==
    IF fn_result = "ok"
    THEN [r EXCEPT !.pc = "idle", !.outcome = "returned", !.invoked = r.invoked + 1]
    ELSE IF r.attempt = r.max_retries
         THEN [r EXCEPT !.pc = "idle", !.outcome = "exhausted",
                        !.error = fn_result, !.invoked = r.invoked + 1]
         ELSE [r EXCEPT !.pc = "sleep", !.error = fn_result,
                        !.invoked = r.invoked + 1]

\* One pass of the loop of with_retry on the invocation r, fn doing
\* fn_result: return fn(); an error outside retryable leaves the loop as it
\* is raised; a retryable one is kept in last_exc, and the loop breaks to
\* raise RetryExhaustedError from it after the last attempt, sleeps otherwise.
WithRetryStep(r, fn_result) ==
    IF fn_result = "ok"
    THEN [r EXCEPT !.pc = "idle", !.outcome = "returned", !.invoked = r.invoked + 1]
    ELSE IF fn_result = "other"
         THEN [r EXCEPT !.pc = "idle", !.outcome = "raised", !.error = "other",
                        !.invoked = r.invoked + 1]
         ELSE IF r.attempt = r.max_retries
              THEN [r EXCEPT !.pc = "idle", !.outcome = "exhausted",
                             !.error = "retryable", !.invoked = r.invoked + 1]
              ELSE [r EXCEPT !.pc = "sleep", !.error = "retryable",
                             !.invoked = r.invoked + 1]

\* with_retry(fn, max_retries) called on a function of any kind; invoked
\* counts the invocations of fn, error is the last error raised by fn.
WithRetryStart(max_retries) ==
    /\ retry.pc = "idle"
    /\ calls.seq < MaxCalls
    /\ retry' = [pc |-> "attempt", attempt |-> 0, outcome |-> None,
                 max_retries |-> max_retries, invoked |-> 0, error |-> None]
    /\ UNCHANGED <<simCall, resVars, dbVars, run, disc, started, reviews, claimed,
                   breaker, clock, calls, sweep>>

WithRetryAttempt(fn_result) ==
    /\ retry.pc = "attempt"
    /\ retry' = WithRetryStep(retry, fn_result)
    /\ calls' = Recorded(calls, "fn",
                         [result |-> IF fn_result = "ok" THEN "ok" ELSE "fail",
                          invoked |-> TRUE, reset |-> FALSE])
    /\ UNCHANGED <<simCall, resVars, dbVars, run, disc, started, reviews, claimed,
                   breaker, clock, sweep>>

NextTry ==
    \/ \E max_retries \in 0..MAX_RETRIES : WithRetryStart(max_retries)
    \/ \E fn_result \in FnResults : WithRetryAttempt(fn_result)
    \/ \E d \in 0..((3 * MAX_DELAY) \div 2) : RetrySleep(d)

\* The store as run_discovery_batch(1) leaves it: the bookkeeping experiment,
\* one pending experiment with its discovery result, and its reservation.
InitRun ==
    /\ reservations = <<NewReservation(1, NormalizeTopicKey(WidgetA),
                                        IdeaFingerprint(WidgetA, <<>>), 0, DEFAULT_TTL_HOURS)>>
    /\ now = 0
    /\ resCall = NoCall
    /\ round = NoRound
    /\ experiments = <<[title |-> BatchTitle, status |-> "completed", current_step |-> 0],
                       [title |-> WidgetA, status |-> "pending", current_step |-> 0]>>
    /\ step_results = <<[experiment_id |-> 2, step_name |-> "idea_discovery",
                         step_number |-> 0, data |-> PlainData]>>
    /\ log = LogEvent(LogEvent(EmptyBag, 1, "", "discovery_start"), 2, "", "idea_created")
    /\ run = [w \in Workers |-> IdleRun]
    /\ disc = [w \in Workers |-> IdleDisc]
    /\ started = 0
    /\ reviews = 0
    /\ claimed = <<[exp_id |-> 2, row |-> 1, worker |-> 1]>>
    /\ InitBrk
    /\ sweep = IdleSweep
    /\ simCall = NoSim

RunStep(w) ==
    \/ MarkRunning(w)
    \/ LogPipelineStart(w)
    \/ Visit(w)
    \/ LogStepStart(w)
    \/ StepSucceeds(w)
    \/ StepFails(w)
    \/ LogStepError(w)
    \/ MarkFailed(w)
    \/ Save(w)
    \/ Advance(w)
    \/ LogStepComplete(w)
    \/ Refresh(w)
    \/ GateScoring(w)
    \/ MarkNoGo(w)
    \/ LogNoGo(w)
    \/ MarkAwaiting(w)
    \/ LogStopped(w)
    \/ MarkCompleted(w)
    \/ LogPipelineComplete(w)

ReviewAction ==
    \E e \in 1..Len(experiments) :
        \/ \E a \in BOOLEAN : SubmitReview(e, a)
        \/ \E a \in BOOLEAN : CliReview(e, a)
        \/ Archive(e)

ExperimentIds == 1..(Len(experiments) + 1)

\* Live workers invoke run_experiment on the pending experiment at any time,
\* also while another invocation on it is under way.
ConcurrentModes == {<<FALSE, TRUE>>}

NextRun ==
    \/ \E w \in Workers, mode \in ConcurrentModes, stop \in StopAfterChoices :
        Load(w, 2, mode, stop) /\ UNCHANGED sweep
    \/ \E w \in Workers : RunStep(w)
    \/ \E e \in 1..Len(experiments), a \in BOOLEAN : SubmitReview(e, a)

SpecRun == InitRun /\ [][NextRun]_vars

NoneInProgress == \A w \in Workers : run[w].pc \notin InProgressPcs

\* One process at a time: run_experiment is invoked, and a review is made,
\* only when no invocation is under way. The invocations may come from any
\* worker; one worker stands for them.
SeqWorker == MinOf(Workers)

LoadSeq(e, mode, stop) ==
    /\ NoneInProgress
    /\ Load(SeqWorker, e, mode, stop)
    /\ UNCHANGED sweep

NextSeq ==
    \/ \E e \in ExperimentIds, mode \in RunnerModes, stop \in StopAfterChoices :
        LoadSeq(e, mode, stop)
    \/ RunStep(SeqWorker)
    \/ Crash(SeqWorker)
    \/ NoneInProgress /\ ReviewAction

SpecSeq == InitRun /\ [][NextSeq]_vars

\* The runner of a live deployment: dry_run off, require_human_review on.
LiveMode == <<FALSE, TRUE>>

\* One process at a time, every invocation by a live runner.
NextLive ==
    \/ \E e \in ExperimentIds, stop \in StopAfterChoices : LoadSeq(e, LiveMode, stop)
    \/ RunStep(SeqWorker)
    \/ Crash(SeqWorker)
    \/ NoneInProgress /\ ReviewAction

SpecLive == InitRun /\ [][NextLive]_vars

\* The stage whose breaker the variable breaker is: the runner keeps one
\* breaker per step name, for as long as the runner lives.
BreakerStage == "deep_research"

AtBreakerStage(w) ==
    run[w].pc = "exec" /\ StepName(run[w].step_num) = BreakerStage

\* result = with_retry(fn=_run_step, ...) of the stage begins.
StageRetryStart ==
    /\ AtBreakerStage(SeqWorker)
    /\ retry.outcome = None
    /\ RetryStart

\* A step of run_experiment; at the stage of the breaker the try block is
\* left as with_retry leaves it: with a result, or with its error.
StageStep ==
    /\ RunStep(SeqWorker)
    /\ AtBreakerStage(SeqWorker) =>
            /\ retry.pc = "idle"
            /\ \/ retry.outcome = "returned" /\ run'[SeqWorker].pc = "save"
               \/ retry.outcome = "exhausted" /\ run'[SeqWorker].pc = "log_step_error"

\* The with_retry call is over and the loop has left the stage.
StageRetryOver ==
    /\ ~AtBreakerStage(SeqWorker)
    /\ retry.pc = "idle"
    /\ retry.outcome # None
    /\ retry' = IdleRetry
    /\ UNCHANGED <<simCall, resVars, dbVars, run, disc, started, reviews, claimed,
                   breaker, clock, calls, sweep>>

\* One runner, one invocation at a time; the stage of the breaker runs
\* through with_retry and the breaker, the other stages return or raise.
NextStage ==
    \/ \E e \in ExperimentIds, mode \in RunnerModes, stop \in StopAfterChoices :
        LoadSeq(e, mode, stop)
    \/ StageStep
    \/ StageRetryStart
    \/ \E fn_ok \in BOOLEAN : RetryAttempt(fn_ok)
    \/ \E d \in 0..((3 * MAX_DELAY) \div 2) : RetrySleep(d)
    \/ StageRetryOver
    \/ NoneInProgress /\ \E d \in TimeChoices : TimePasses(d)

SpecStage == InitRun /\ [][NextStage]_vars

\* SpecStage with the runner's process scheduled: a statement that can be
\* executed is executed, Step.run returns or raises, time.sleep returns.
SpecStageFair ==
    /\ SpecStage
    /\ WF_vars(StageStep)
    /\ WF_vars(StageRetryStart)
    /\ WF_vars(\E fn_ok \in BOOLEAN : RetryAttempt(fn_ok))
    /\ WF_vars(\E d \in 0..((3 * MAX_DELAY) \div 2) : RetrySleep(d))

\* Database.list_experiments(status): the ids of the rows, in id order.
ListExperiments(exps, status) ==
    SelectSeq([e \in 1..Len(exps) |-> e], LAMBDA e : exps[e].status = status)

\* What run_experiment did when it raised: a stage failed, or there is no
\* such experiment.
RaisedOutcomes == {"raised", "not_found"}

\* The mutant of AfterRun: the error of run_experiment leaves the sweep.
AfterRunPropagates(sw, e, outcome) ==
    IF outcome \in RaisedOutcomes
    THEN [sw EXCEPT !.pc = "raised"]
    ELSE [sw EXCEPT !.pc = IF Len(sw.todo) = 1 THEN "returned" ELSE "loop",
                    !.todo = Tail(sw.todo)]

\* The body of the loop of run_all_pending after run_experiment(e) ended with
\* outcome: an Exception is caught and logged, and the loop goes on.
AfterRun(sw, e, outcome) ==
    [sw EXCEPT !.pc = IF Len(sw.todo) = 1 THEN "returned" ELSE "loop",
               !.todo = Tail(sw.todo),
               !.caught = IF outcome \in RaisedOutcomes THEN Append(sw.caught, e)
                          ELSE sw.caught]

\* run_all_pending(stop_after) on a runner with the settings of mode: the
\* pending experiments, then the approved ones.
RunAllPending(mode, stop) ==
    /\ NoneInProgress
    /\ sweep.pc \in {"idle", "returned"}
    /\ started < MaxRuns
    /\ LET ids == ListExperiments(experiments, "pending")
                    \o ListExperiments(experiments, "approved") IN
        sweep' = [pc |-> IF ids = <<>> THEN "returned" ELSE "loop",
                  mode |-> mode, stop_after |-> stop, todo |-> ids,
                  listed |-> ids, called |-> <<>>, caught |-> <<>>]
    /\ UNCHANGED <<simCall, resVars, dbVars, run, disc, started, reviews, claimed, brkVars>>

\* self.run_experiment(exp.id, stop_after=stop_after) for the next of them.
SweepCall ==
    /\ sweep.pc = "loop"
    /\ Load(SeqWorker, Head(sweep.todo), sweep.mode, sweep.stop_after)
    /\ sweep' = [sweep EXCEPT !.pc = "call", !.called = Append(@, Head(sweep.todo))]

\* run_experiment returned or raised.
SweepResume ==
    /\ sweep.pc = "call"
    /\ run[SeqWorker].pc = "done"
    /\ sweep' = AfterRun(sweep, Head(sweep.todo), run[SeqWorker].outcome)
    /\ UNCHANGED <<simCall, resVars, dbVars, run, disc, started, reviews, claimed, brkVars>>

\* The store as run_discovery_batch(2) leaves it: the bookkeeping experiment
\* and two pending experiments with their discovery results and reservations.
InitAll ==
    /\ reservations = <<NewReservation(1, NormalizeTopicKey(WidgetA),
                                        IdeaFingerprint(WidgetA, <<>>), 0, DEFAULT_TTL_HOURS),
                        NewReservation(1, NormalizeTopicKey(Ai4U),
                                        IdeaFingerprint(Ai4U, <<>>), 0, DEFAULT_TTL_HOURS)>>
    /\ now = 0
    /\ resCall = NoCall
    /\ round = NoRound
    /\ experiments = <<[title |-> BatchTitle, status |-> "completed", current_step |-> 0],
                       [title |-> WidgetA, status |-> "pending", current_step |-> 0],
                       [title |-> Ai4U, status |-> "pending", current_step |-> 0]>>
    /\ step_results = <<[experiment_id |-> 2, step_name |-> "idea_discovery",
                         step_number |-> 0, data |-> PlainData],
                        [experiment_id |-> 3, step_name |-> "idea_discovery",
                         step_number |-> 0, data |-> PlainData]>>
    /\ log = LogEvent(LogEvent(LogEvent(EmptyBag, 1, "", "discovery_start"),
                               2, "", "idea_created"), 3, "", "idea_created")
    /\ run = [w \in Workers |-> IdleRun]
    /\ disc = [w \in Workers |-> IdleDisc]
    /\ started = 0
    /\ reviews = 0
    /\ claimed = <<[exp_id |-> 2, row |-> 1, worker |-> 1],
                   [exp_id |-> 3, row |-> 2, worker |-> 1]>>
    /\ InitBrk
    /\ sweep = IdleSweep
    /\ simCall = NoSim

\* One process sweeps with run_all_pending; reviews and archiving come in
\* before the sweep and between two of its run_experiment calls.
NextAll ==
    \/ \E mode \in RunnerModes, stop \in StopAfterChoices : RunAllPending(mode, stop)
    \/ SweepCall
    \/ RunStep(SeqWorker)
    \/ SweepResume
    \/ NoneInProgress /\ sweep.pc # "call" /\ ReviewAction

SpecAll == InitAll /\ [][NextAll]_vars

\* The worker that runs the discovery batch while SeqWorker sweeps.
BatchWorker == CHOOSE w \in Workers : w # SeqWorker

\* An empty store on which BatchWorker has entered run_discovery_batch(1)
\* and created its bookkeeping experiment.
InitPar ==
    /\ reservations = <<>>
    /\ now = 0
    /\ resCall = NoCall
    /\ round = NoRound
    /\ experiments = CreateExperimentRow(<<>>, BatchTitle)
    /\ step_results = <<>>
    /\ log = EmptyBag
    /\ run = [w \in Workers |-> IdleRun]
    /\ disc = [w \in Workers |->
                IF w = BatchWorker
                    THEN [IdleDisc EXCEPT !.pc = "log_discovery_start",
                                          !.max_ideas = 1, !.temp_exp = 1]
                ELSE IdleDisc]
    /\ started = 0
    /\ reviews = 0
    /\ claimed = <<>>
    /\ InitBrk
    /\ sweep = IdleSweep
    /\ simCall = NoSim

\* The batch goes on in one process while another sweeps with
\* run_all_pending, at any time and as often as the bound allows.
NextPar ==
    \/ DiscStep(BatchWorker)
    \/ \E mode \in RunnerModes, stop \in StopAfterChoices : RunAllPending(mode, stop)
    \/ SweepCall
    \/ RunStep(SeqWorker)
    \/ SweepResume

SpecPar == InitPar /\ [][NextPar]_vars

MaxSlots == 2

\* One worker runs batches of up to MaxSlots ideas, one after the other.
NextSlots ==
    \/ \E max_ideas \in 1..MaxSlots : BatchStart(SeqWorker, max_ideas)
    \/ DiscStep(SeqWorker)

\* Two batches of one slot, one after the other, each by another worker,
\* within the reservation TTL; the discovery stage always returns Widget A,
\* and the embedding search finds nothing in an empty store.
NextTwice ==
    \/ \E w \in Workers :
        /\ NoBatchInProgress
        /\ disc[w].pc = "idle"
        /\ BatchStart(w, 1)
    \/ Tick
    \/ \E w \in Workers :
        \/ LogDiscoveryStart(w)
        \/ Discover(w, [title |-> WidgetA, one_liner |-> <<>>])
        \/ \E semantic_dup \in BOOLEAN :
            /\ semantic_dup => reservations # <<>>
            /\ Dedup(w, semantic_dup)
        \/ Reserve(w)
        \/ CreateExperiment(w)
        \/ SaveIdea(w)
        \/ LogIdeaCreated(w)
        \/ MarkBatchCompleted(w)

InitRes ==
    /\ reservations = <<>>
    /\ now = 0
    /\ resCall = NoCall
    /\ round = NoRound
    /\ experiments = <<>>
    /\ step_results = <<>>
    /\ log = EmptyBag
    /\ run = [w \in Workers |-> IdleRun]
    /\ disc = [w \in Workers |-> IdleDisc]
    /\ started = 0
    /\ reviews = 0
    /\ claimed = <<>>
    /\ InitBrk
    /\ sweep = IdleSweep
    /\ simCall = NoSim

NextRes ==
    \/ \E w \in Workers, k \in TopicKeys, ttl \in TtlChoices : TryReserve(w, k, ttl)
    \/ \E w \in Workers, k \in TopicKeys, c \in BOOLEAN : Release(w, k, c)
    \/ \E w \in Workers, k \in TopicKeys, ttl \in TtlChoices : Renew(w, k, ttl)
    \/ ExpireStale
    \/ Tick
    \/ \E k \in TopicKeys : RoundBegin(k)
    \/ \E w \in Workers, ttl \in TtlChoices : RoundCall(w, ttl)
    \/ RoundEnd

SpecRes == InitRes /\ [][NextRes]_vars

SpecDisc == InitRes /\ [][NextDisc]_vars

SpecSlots == InitRes /\ [][NextSlots]_vars

SpecTwice == InitRes /\ [][NextTwice]_vars

SpecBrk == InitRes /\ [][NextBrk]_vars

SpecTry == InitRes /\ [][NextTry]_vars

SpecSim == InitRes /\ [][NextSim]_vars

\* ------------------------------------------------------------------ claims

\* C1: in every reachable state of the reservation store, whatever the
\* interleaving of try_reserve, release, renew and the expiry sweep, at most
\* one reservation with status active exists for any topic key.
C1_AtMostOneActivePerKey ==
    \A k \in TopicKeys : Cardinality(ActiveRowsFor(reservations, k)) <= 1

\* C1 witness: a key was claimed, its row expired, and the key was claimed
\* again: two rows for one key, exactly one of them active.
C1_Witness ==
    \E i, j \in 1..Len(reservations) :
        /\ i < j
        /\ reservations[i].topic_key = reservations[j].topic_key
        /\ reservations[i].status = "expired"
        /\ reservations[j].status = "active"

\* C2: when every worker issues try_reserve concurrently for a key that had
\* no active reservation, exactly one call returns success and the other
\* N-1 calls return failure.
C2_ExactlyOneWinner ==
    (round.key # None /\ round.pending = {}) =>
        /\ Cardinality(round.ok) = 1
        /\ Cardinality(round.fail) = NumWorkers - 1

\* C2 witness: a round of concurrent calls has finished.
C2_Witness ==
    /\ round.key # None
    /\ round.pending = {}
    /\ round.fail # {}

C4_PersistedStageNotExecutedAgain ==
    \A w \in Workers :
        run[w].pc = "exec" =>
            ResultRowsFor(step_results, run[w].exp_id, StepName(run[w].step_num)) = {}

\* C4 witness: an invocation walked past stages whose results were persisted
\* by an earlier invocation and is executing the first stage without one.
C4_Witness ==
    \E w \in Workers :
        /\ run[w].pc = "exec"
        /\ run[w].executed = <<>>
        /\ run[w].start_from < run[w].step_num
        /\ \A n \in run[w].start_from..(run[w].step_num - 1) :
            IsComplete(step_results, run[w].exp_id, n)

\* C5: for one experiment, at most one stage execution is in progress at
\* any time across all workers, also when several workers invoke
\* run_experiment on it concurrently.
C5_OneExecutionInProgress ==
    \A e \in 1..Len(experiments) :
        Cardinality({w \in Workers : run[w].pc = "exec" /\ run[w].exp_id = e}) <= 1

\* C6: an invocation on an experiment that failed at stage k (status failed,
\* current_step k) resumes at stage k: it executes no stage below k and
\* stage k first, no (experiment, stage) has two StageResults, and the log
\* holds no more step_complete events for the stages below k than it held
\* when the invocation began.
C6_ResumesAtFailedStage ==
    /\ \A e \in 1..Len(experiments), n \in StepNumbers :
        Cardinality(ResultRowsFor(step_results, e, StepName(n))) <= 1
    /\ \A w \in Workers :
        LET r == run[w] IN
        r.entry_status = "failed" =>
            /\ \A i \in 1..Len(r.executed) : r.executed[i] >= r.entry_step
            /\ r.executed # <<>> => r.executed[1] = r.entry_step
            /\ \A n \in StepNumbers :
                n < r.entry_step =>
                    LET ev == [experiment_id |-> r.exp_id, step_name |-> StepName(n),
                               event |-> "step_complete"]
                    IN CopiesIn(ev, log) = CopiesIn(ev, r.entry_log)

\* C6 witness: an experiment failed at a stage above the first, was invoked
\* again, and the failed stage has now run and logged step_complete.
C6_Witness ==
    \E w \in Workers :
        /\ run[w].entry_status = "failed"
        /\ run[w].entry_step > 1
        /\ run[w].pc = "refresh"
        /\ run[w].step_num = run[w].entry_step
        /\ run[w].executed = <<run[w].entry_step>>

\* C7: for an experiment whose scoring StageResult has decision no_go, no
\* stage with a higher number has a StageResult.
C7_NoStageResultAfterNoGo ==
    \A e \in 1..Len(experiments) :
        GetStepResult(step_results, e, "scoring").decision = "no_go" =>
            \A n \in StepNumbers :
                n > SCORING => ResultRowsFor(step_results, e, StepName(n)) = {}

\* C8: once the human review stage has run with a result that is neither
\* approved nor skipped, the invocation executes nothing more and moves only
\* towards its return, which leaves status awaiting_review and current_step
\* at the review stage's number.
C8_ReviewGatePauses ==
    [][\A w \in Workers :
        (/\ run[w].pc \in {"save", "advance", "log_step_complete", "refresh",
                           "mark_awaiting"}
         /\ run[w].step_num = HUMAN_REVIEW
         /\ ~run[w].result.approved
         /\ ~run[w].result.skipped
         /\ run'[w] # run[w]
         /\ run'[w].pc # "crashed")
            => /\ run'[w].step_num = HUMAN_REVIEW
               /\ run'[w].executed = run[w].executed
               /\ run'[w].pc \in {"advance", "log_step_complete", "refresh",
                                  "mark_awaiting", "done"}
               /\ run'[w].pc = "done" =>
                    /\ run'[w].outcome = "awaiting_review"
                    /\ experiments'[run[w].exp_id].status = "awaiting_review"
                    /\ experiments'[run[w].exp_id].current_step = HUMAN_REVIEW]_vars

\* C8 witness: an invocation has returned at the review gate.
C8_Witness ==
    \E w \in Workers :
        /\ run[w].pc = "done"
        /\ run[w].outcome = "awaiting_review"
        /\ run[w].executed # <<>>
        /\ experiments[run[w].exp_id].status = "awaiting_review"
        /\ experiments[run[w].exp_id].current_step = HUMAN_REVIEW

\* C9: run_experiment invoked without dry_run on an experiment with status
\* awaiting_review returns at once: it executes no stage, writes nothing to
\* the experiment, the results or the log; invoked with dry_run it goes on
\* to run.
C9_AwaitingReviewBlocks ==
    [][\A w \in Workers :
        (/\ started' # started
         /\ run'[w] # run[w]
         /\ run'[w].exp_id \in 1..Len(experiments)
         /\ experiments[run'[w].exp_id].status = "awaiting_review")
            => IF run'[w].dry_run
                   THEN run'[w].pc = "mark_running"
               ELSE /\ run'[w].pc = "done"
                    /\ run'[w].outcome = "noop"
                    /\ run'[w].executed = <<>>
                    /\ dbVars' = dbVars]_vars

\* C9 witness: a non-dry-run invocation on an experiment awaiting review has
\* returned.
C9_Witness ==
    \E w \in Workers :
        /\ run[w].entry_status = "awaiting_review"
        /\ ~run[w].dry_run
        /\ run[w].pc = "done"
        /\ run[w].outcome = "noop"

\* C10: every call of run_experiment on an experiment with status completed,
\* archived or rejected returns at once: no stage executes, no StageResult
\* or log event is written, status and current_step stay as they are.
C10_TerminalIsNoOp ==
    [][\A w \in Workers :
        (/\ started' # started
         /\ run'[w] # run[w]
         /\ run'[w].exp_id \in 1..Len(experiments)
         /\ experiments[run'[w].exp_id].status \in {"completed", "archived", "rejected"})
            => /\ run'[w].pc = "done"
               /\ run'[w].outcome = "noop"
               /\ run'[w].executed = <<>>
               /\ dbVars' = dbVars]_vars

\* C10 witness: an invocation ran the pending experiment to completed, and
\* the next invocation on it has returned without doing anything.
C10_Witness ==
    \E w \in Workers :
        /\ run[w].exp_id = 2
        /\ run[w].entry_status = "completed"
        /\ run[w].pc = "done"
        /\ run[w].outcome = "noop"

\* C11: when a stage's execution has failed for good, run_experiment logs
\* step_error for the stage, then sets status failed with current_step at
\* the stage's number and raises; it executes nothing more, and no
\* StageResult of the failed stage is persisted.
C11_FailureHalts ==
    [][\A w \in Workers :
        LET r == run[w]
            r2 == run'[w]
        IN
        /\ (r.pc = "exec" /\ r2.pc \notin {"exec", "save", "crashed"})
                => r2.pc = "log_step_error" /\ dbVars' = dbVars
        /\ (r.pc = "log_step_error" /\ r2 # r /\ r2.pc # "crashed")
                => /\ r2.pc = "mark_failed"
                   /\ r2.executed = r.executed
                   /\ log' = LogEvent(log, r.exp_id, StepName(r.step_num), "step_error")
                   /\ step_results' = step_results
        /\ (r.pc = "mark_failed" /\ r2 # r /\ r2.pc # "crashed")
                => /\ r2.pc = "done"
                   /\ r2.outcome = "raised"
                   /\ r2.executed = r.executed
                   /\ r.executed[Len(r.executed)] = r.step_num
                   /\ experiments'[r.exp_id].status = "failed"
                   /\ experiments'[r.exp_id].current_step = r.step_num
                   /\ ResultRowsFor(step_results', r.exp_id, StepName(r.step_num)) = {}]_vars

\* C11 witness: an invocation has raised out of a failed stage above the
\* first one.
C11_Witness ==
    \E w \in Workers :
        /\ run[w].pc = "done"
        /\ run[w].outcome = "raised"
        /\ run[w].step_num > 1
        /\ experiments[run[w].exp_id].status = "failed"
        /\ experiments[run[w].exp_id].current_step = run[w].step_num

\* C12: no step of the orchestrator or of a review action lowers an
\* experiment's current_step, whichever workers issue the runs.
C12_CurrentStepNeverDecreases ==
    [][\A e \in 1..Len(experiments) :
        experiments'[e].current_step >= experiments[e].current_step]_vars

\* C13: every change of an experiment's status is a transition of the
\* machine pending -> running -> {awaiting_review, no_go, failed} ->
\* {approved, rejected} -> completed | archived, and a change to approved
\* or rejected starts from awaiting_review.
C13_StatusFollowsMachine ==
    [][\A e \in 1..Len(experiments) :
        LET old == experiments[e].status
            new == experiments'[e].status
        IN
        old # new =>
            /\ \/ old = "pending" /\ new = "running"
               \/ old = "running" /\ new \in {"awaiting_review", "no_go", "failed"}
               \/ old \in {"awaiting_review", "no_go", "failed"}
                    /\ new \in {"approved", "rejected"}
               \/ old \in {"approved", "rejected"} /\ new \in {"completed", "archived"}
            /\ new \in {"approved", "rejected"} => old = "awaiting_review"]_vars

\* C14: in every reachable state of the reservation store, for a key whose
\* active reservation is past its expiry, try_reserve by any worker with any
\* TTL succeeds, leaves the old row expired and the new row the only active
\* one for the key.
C14_StaleRowNeverBlocks ==
    \A k \in TopicKeys, i \in 1..Len(reservations) :
        (reservations[i].topic_key = k /\ IsStale(reservations[i], now)) =>
            \A w \in Workers, ttl \in TtlChoices :
                LET r == TryReserveTxn(reservations, w, k, NoFingerprint, now, ttl) IN
                /\ r.ok
                /\ Len(r.rows) = Len(reservations) + 1
                /\ r.rows[i].status = "expired"
                /\ ActiveRowsFor(r.rows, k) = {Len(r.rows)}
                /\ r.rows[Len(r.rows)].worker_id = w

\* C14 witness: a try_reserve has just succeeded on a key whose earlier
\* row, another worker's, was past its expiry and is now expired.
C14_Witness ==
    /\ resCall = [op |-> "try_reserve", ret |-> TRUE]
    /\ \E i \in 1..Len(reservations) :
        LET j == Len(reservations) IN
        /\ i < j
        /\ reservations[i].topic_key = reservations[j].topic_key
        /\ reservations[i].worker_id # reservations[j].worker_id
        /\ reservations[i].status = "expired"
        /\ reservations[i].expires_at < now
        /\ reservations[j].status = "active"
        /\ reservations[j].expires_at > now

\* C15: the stages one run_experiment invocation has executed form a
\* strictly ascending sequence of stage numbers, each at least 1 and at
\* least the current_step the invocation found; stage 0 is never among them.
C15_AscendingFromStart ==
    \A w \in Workers :
        LET ex == run[w].executed IN
        /\ \A i \in 1..Len(ex) :
            /\ ex[i] # 0
            /\ ex[i] >= 1
            /\ ex[i] >= run[w].entry_step
        /\ \A i, j \in 1..Len(ex) : i < j => ex[i] < ex[j]

\* C15 witness: a resumed invocation has executed two stages.
C15_Witness ==
    \E w \in Workers :
        /\ run[w].entry_step >= 2
        /\ Len(run[w].executed) >= 2

\* C16, as the code has it: an invocation given stop_after = s executes no
\* stage after one numbered s or higher has completed and does not set
\* status completed then; it returns through the scoring gate (no_go) or the
\* review gate (awaiting_review) when one of them applies to that stage, and
\* otherwise logs pipeline_stopped and returns, leaving the experiment as the
\* stage's completion left it.
C16_StopAfterReturns ==
    [][\A w \in Workers :
        LET r == run[w]
            r2 == run'[w]
        IN
        (r.stop_after # NoStop /\ r.step_num >= r.stop_after) =>
            /\ \A i \in 1..(Len(r.executed) - 1) : r.executed[i] < r.stop_after
            /\ (r.pc = "refresh" /\ r2 # r /\ r2.pc # "crashed") =>
                /\ r2.executed = r.executed
                /\ r2.pc = IF StepName(r.step_num) = "scoring" THEN "gate_scoring"
                           ELSE IF ReviewGate(r) THEN "mark_awaiting"
                           ELSE "log_stopped"
            /\ (r.pc = "gate_scoring" /\ r2 # r /\ r2.pc # "crashed") =>
                /\ r2.executed = r.executed
                /\ r2.pc = IF GetStepResult(step_results, r.exp_id, "scoring").decision
                                = "no_go"
                               THEN "mark_nogo"
                           ELSE "log_stopped"
            /\ (r.pc = "log_stopped" /\ r2 # r /\ r2.pc # "crashed") =>
                /\ r2.pc = "done"
                /\ r2.outcome = "stopped"
                /\ r2.executed = r.executed
                /\ log' = LogEvent(log, r.exp_id, "", "pipeline_stopped")
                /\ experiments' = experiments
                /\ experiments[r.exp_id].status = "running"
                /\ step_results' = step_results]_vars

\* C16 witness: an invocation with stop_after has returned after logging
\* pipeline_stopped, the experiment still running.
C16_Witness ==
    \E w \in Workers :
        /\ run[w].pc = "done"
        /\ run[w].outcome = "stopped"
        /\ run[w].stop_after # NoStop
        /\ run[w].executed # <<>>
        /\ run[w].executed[Len(run[w].executed)] >= run[w].stop_after
        /\ experiments[run[w].exp_id].status = "running"

\* C16, as stated: an invocation given stop_after = s that has returned
\* after a stage numbered s or higher completed has logged pipeline_stopped.
C16_StopAlwaysLogsStopped ==
    \A w \in Workers :
        LET r == run[w] IN
        (/\ r.pc = "done"
         /\ r.stop_after # NoStop
         /\ r.executed # <<>>
         /\ r.executed[Len(r.executed)] >= r.stop_after
         /\ r.outcome # "raised")
            => /\ r.outcome = "stopped"
               /\ CopiesIn([experiment_id |-> r.exp_id, step_name |-> "",
                            event |-> "pipeline_stopped"], log)
                    > CopiesIn([experiment_id |-> r.exp_id, step_name |-> "",
                                event |-> "pipeline_stopped"], r.entry_log)


\* C17: once FAILURE_THRESHOLD calls through the breaker have failed in a row
\* the breaker is open, and a call made while it is open and no more than
\* RESET_TIMEOUT seconds after the last recorded failure raises circuit-open,
\* does not invoke fn and leaves the breaker as it is.
C17_OpenAfterThreshold ==
    /\ [](calls.streak >= FAILURE_THRESHOLD => breaker.is_open)
    /\ [][(/\ calls'.seq # calls.seq
           /\ calls'.last.op = "call"
           /\ breaker.is_open
           /\ clock - breaker.last_failure_time <= RESET_TIMEOUT)
          => (/\ calls'.last.result = "open"
              /\ ~calls'.last.invoked
              /\ calls'.failures = calls.failures
              /\ breaker' = breaker)]_vars

\* C17 witness: the threshold was reached, exactly RESET_TIMEOUT seconds went
\* by, and the next call was refused without fn being invoked.
C17_Witness ==
    /\ breaker.is_open
    /\ calls.streak = FAILURE_THRESHOLD
    /\ calls.last = [op |-> "call", result |-> "open", invoked |-> FALSE]
    /\ clock - breaker.last_failure_time = RESET_TIMEOUT

\* C18: every attempt of with_retry goes through the breaker: an attempt made
\* while the breaker is open within the timeout does not invoke the stage, a
\* failing attempt adds one to the failure count, and the breaker is open as
\* soon as FAILURE_THRESHOLD failures in a row are counted, whatever is left
\* of the retry budget.
C18_AttemptsCountAgainstBreaker ==
    /\ [](retry.pc # "idle" /\ calls.streak >= FAILURE_THRESHOLD => breaker.is_open)
    /\ [][(retry.pc = "attempt" /\ retry' # retry)
          => (/\ calls'.seq = calls.seq + 1
              /\ (breaker.is_open /\ clock - breaker.last_failure_time <= RESET_TIMEOUT)
                    => (~calls'.last.invoked /\ breaker' = breaker)
              /\ calls'.last.result = "fail"
                    => (/\ breaker'.failure_count =
                              (IF breaker.is_open THEN 0 ELSE breaker.failure_count) + 1
                        /\ breaker'.last_failure_time = clock
                        /\ breaker'.failure_count >= FAILURE_THRESHOLD
                              => breaker'.is_open))]_vars

\* C18 witness: an attempt that was not the last of its with_retry failed and
\* opened the breaker.
C18_Witness ==
    /\ retry.pc = "sleep"
    /\ retry.attempt < MAX_RETRIES
    /\ breaker.is_open
    /\ breaker.failure_count = FAILURE_THRESHOLD
    /\ calls.last = [op |-> "call", result |-> "fail", invoked |-> TRUE]

\* C19: the first operation that reads is_open more than RESET_TIMEOUT seconds
\* after the last recorded failure closes an open breaker with a failure count
\* of zero: the read returns closed, a call invokes fn; nothing but such an
\* operation changes the breaker.
C19_ResetsAfterTimeout ==
    [][/\ (/\ calls'.seq # calls.seq
           /\ breaker.is_open
           /\ clock - breaker.last_failure_time > RESET_TIMEOUT)
          => (/\ calls'.last.op = "is_open"
                    => (/\ calls'.last.result = "closed"
                        /\ breaker' = [breaker EXCEPT !.is_open = FALSE,
                                                      !.failure_count = 0])
              /\ calls'.last.op = "call"
                    => (/\ calls'.last.invoked
                        /\ ~breaker'.is_open
                        /\ breaker'.failure_count =
                              IF calls'.last.result = "fail" THEN 1 ELSE 0))
       /\ calls'.seq = calls.seq => breaker' = breaker]_vars

\* C19 witness: the breaker opened, was reset by the passing of time, and the
\* call that found it so invoked fn.
C19_Witness ==
    /\ calls.resets >= 1
    /\ calls.failures >= FAILURE_THRESHOLD
    /\ calls.last.op = "call"
    /\ calls.last.invoked

\* C20: a call that succeeds leaves the failure count at zero and the breaker
\* closed; the failure count is the number of failures in a row, and the
\* breaker is open only when FAILURE_THRESHOLD of them came with no success in
\* between.
C20_SuccessResetsCount ==
    /\ [](breaker.failure_count = calls.streak)
    /\ [](breaker.is_open => calls.streak >= FAILURE_THRESHOLD)
    /\ [][(calls'.seq # calls.seq /\ calls'.last.result = "ok")
          => (breaker'.failure_count = 0 /\ ~breaker'.is_open)]_vars

\* C20 witness: FAILURE_THRESHOLD calls failed with one success among them,
\* and the breaker is closed.
C20_Witness ==
    /\ calls.failures = FAILURE_THRESHOLD
    /\ calls.resets = 0
    /\ calls.streak < FAILURE_THRESHOLD
    /\ calls.last.result = "fail"
    /\ ~breaker.is_open


\* C21: in with_retry a call of fn that succeeds ends the invocation with its
\* value, and a retryable failure that is not the last attempt is followed by
\* a sleep and another attempt; so an invocation that returned after k
\* retryable failures, k <= max_retries, invoked fn exactly k + 1 times.
C21_ReturnsAfterFailures ==
    /\ [](retry.pc = "idle" /\ retry.outcome = "returned"
            => (/\ retry.attempt <= retry.max_retries
                /\ retry.invoked = retry.attempt + 1))
    /\ [][(retry.pc = "attempt" /\ retry' # retry)
          => (/\ calls'.last.result = "ok"
                    => (retry'.pc = "idle" /\ retry'.outcome = "returned")
              /\ (/\ calls'.last.result = "fail"
                  /\ retry'.error = "retryable"
                  /\ retry.attempt < retry.max_retries)
                    => (retry'.pc = "sleep" /\ retry'.attempt = retry.attempt))]_vars

\* C21 witness: max_retries 3, two failures, then the success: 3 invocations.
C21_Witness ==
    /\ retry.pc = "idle"
    /\ retry.outcome = "returned"
    /\ retry.max_retries = 3
    /\ retry.attempt = 2
    /\ retry.invoked = 3

\* C22: with_retry never invokes fn more than max_retries + 1 times, and it
\* raises RetryExhaustedError exactly when the attempt numbered max_retries
\* failed with a retryable error, which is the error it wraps: fn was then
\* invoked max_retries + 1 times.
C22_ExhaustedAfterAllAttempts ==
    /\ [](retry.pc # "idle" \/ retry.outcome # None
            => retry.invoked <= retry.max_retries + 1)
    /\ [](retry.pc = "idle" /\ retry.outcome = "exhausted"
            => (/\ retry.invoked = retry.max_retries + 1
                /\ retry.attempt = retry.max_retries
                /\ retry.error = "retryable"))
    /\ [][(/\ retry.pc = "attempt" /\ retry' # retry
           /\ calls'.last.result = "fail"
           /\ retry'.error = "retryable"
           /\ retry.attempt = retry.max_retries)
          => (retry'.pc = "idle" /\ retry'.outcome = "exhausted")]_vars

\* C22 witness: max_retries 3, four attempts, all failed.
C22_Witness ==
    /\ retry.pc = "idle"
    /\ retry.outcome = "exhausted"
    /\ retry.max_retries = 3
    /\ retry.invoked = 4

\* C23: an invocation of fn that raises an error outside the retryable kinds
\* ends with_retry at once with that error: no sleep follows, the attempt
\* number stays, the clock stays; raised on the first invocation, fn was
\* invoked exactly once.
C23_NonRetryablePropagates ==
    /\ [](retry.pc = "idle" /\ retry.outcome = "raised" => retry.error = "other")
    /\ [](retry.pc = "sleep" => retry.error = "retryable")
    /\ [][(retry.pc = "attempt" /\ retry' # retry /\ retry'.error = "other")
          => (/\ retry'.pc = "idle"
              /\ retry'.outcome = "raised"
              /\ retry'.attempt = retry.attempt
              /\ retry'.invoked = retry.invoked + 1
              /\ clock' = clock)]_vars

\* C23 witness: the first invocation raised an error that is not retryable.
C23_Witness ==
    /\ retry.pc = "idle"
    /\ retry.outcome = "raised"
    /\ retry.max_retries = 3
    /\ retry.attempt = 0
    /\ retry.invoked = 1


\* C24: run_all_pending never ends by raising; when it returns it has called
\* run_experiment once for every experiment that was pending or approved when
\* it began, in the order listed; and when a call raises, the error is
\* caught and the sweep goes on with the experiments that remain.
C24_SweepRunsEveryExperiment ==
    /\ [](sweep.pc \in {"idle", "loop", "call", "returned"})
    /\ [](sweep.pc = "returned" => sweep.called = sweep.listed)
    /\ [](\A i \in 1..Len(sweep.caught) :
            \E j \in 1..Len(sweep.called) : sweep.called[j] = sweep.caught[i])
    /\ [][/\ sweep.pc \in {"idle", "returned"} /\ sweep' # sweep
             => \A e \in 1..Len(experiments) :
                    experiments[e].status \in {"pending", "approved"}
                        <=> \E i \in 1..Len(sweep'.listed) : sweep'.listed[i] = e
          /\ sweep.pc = "loop" /\ sweep' # sweep
             => (/\ started' = started + 1
                 /\ run'[SeqWorker].exp_id = Head(sweep.todo)
                 /\ sweep'.called = Append(sweep.called, Head(sweep.todo)))
          /\ (/\ sweep.pc = "call" /\ sweep'.pc # "call"
              /\ run[SeqWorker].outcome \in RaisedOutcomes)
             => (/\ sweep'.caught = Append(sweep.caught, Head(sweep.todo))
                 /\ sweep'.todo = Tail(sweep.todo)
                 /\ sweep'.pc = IF Len(sweep.todo) = 1 THEN "returned" ELSE "loop")]_vars

\* C24 witness: the sweep listed a pending and an approved experiment, the
\* run of the first raised, the second was run to completion, and the sweep
\* returned.
C24_Witness ==
    /\ sweep.pc = "returned"
    /\ sweep.listed = <<3, 2>>
    /\ sweep.caught = <<3>>
    /\ experiments[3].status = "failed"
    /\ experiments[2].status = "completed"


\* C25: no run_discovery_batch ends by raising: an error raised in a slot is
\* caught and the batch goes on with the next slot.
C25_SlotErrorCaught ==
    \A w \in Workers : disc[w].pc = "done" => disc[w].outcome = "returned"


\* C26: in a slot of run_discovery_batch the discovery stage is run at most
\* MAX_DEDUP_RETRIES + 1 times, each dedup hit or lost claim using one up;
\* when the last of them ends in a dedup hit or a lost claim the batch moves
\* to the next slot, or to its end, without raising and without a new
\* experiment; and a batch holds at most max_ideas experiment ids.
C26_SlotSkippedAfterRetries ==
    /\ [](\A w \in Workers :
            /\ disc[w].attempt <= MAX_DEDUP_RETRIES
            /\ Len(disc[w].experiment_ids) <= disc[w].max_ideas
            /\ Len(disc[w].experiment_ids) <= disc[w].idea_slot)
    /\ [][\A w \in Workers :
            (/\ disc[w].pc \in {"dedup", "reserve"}
             /\ disc'[w] # disc[w]
             /\ disc'[w].pc \notin {"reserve", "create_experiment"})
            => IF disc[w].attempt < MAX_DEDUP_RETRIES
               THEN /\ disc'[w].pc = "discover"
                    /\ disc'[w].idea_slot = disc[w].idea_slot
                    /\ disc'[w].attempt = disc[w].attempt + 1
               ELSE /\ disc'[w].idea_slot = disc[w].idea_slot + 1
                    /\ disc'[w].attempt = 0
                    /\ disc'[w].experiment_ids = disc[w].experiment_ids
                    /\ experiments' = experiments
                    /\ disc'[w].pc = IF disc[w].idea_slot + 1 < disc[w].max_ideas
                                     THEN "discover" ELSE "mark_batch_completed"]_vars

\* C26 witness: the first slot of a batch of two was given up with no
\* experiment, and the second slot made its claim.
C26_Witness ==
    \E w \in Workers :
        /\ disc[w].max_ideas = 2
        /\ disc[w].idea_slot = 1
        /\ disc[w].experiment_ids = <<>>
        /\ disc[w].pc = "create_experiment"


\* C27: the discovery stage always returning Widget A, the batch of the
\* first worker creates the experiment for widget-a; the batch of the second
\* worker creates none, leaves its slot only after its attempt numbered
\* MAX_DEDUP_RETRIES, and returns; the store then holds exactly one
\* experiment for widget-a.
C27_SecondWorkerSkipped ==
    /\ [](\A w \in Workers :
            /\ (disc[w].temp_exp = 1 /\ disc[w].pc = "done")
                    => (disc[w].outcome = "returned" /\ disc[w].experiment_ids = <<2>>)
            /\ disc[w].temp_exp = 3
                    => /\ disc[w].experiment_ids = <<>>
                       /\ disc[w].pc \notin {"create_experiment", "save_idea",
                                             "log_idea_created"}
            /\ (disc[w].temp_exp = 3 /\ disc[w].pc = "done")
                    => /\ disc[w].outcome = "returned"
                       /\ Cardinality({e \in 1..Len(experiments) :
                              NormalizeTopicKey(experiments[e].title)
                                  = NormalizeTopicKey(WidgetA)}) = 1)
    /\ [][\A w \in Workers :
            (/\ disc[w].temp_exp = 3
             /\ disc[w].pc \in {"dedup", "reserve"}
             /\ disc'[w].pc = "mark_batch_completed")
            => disc[w].attempt = MAX_DEDUP_RETRIES]_vars

\* C27 witness: both batches are over, the second with its slot skipped.
C27_Witness ==
    \E w \in Workers :
        /\ disc[w].temp_exp = 3
        /\ disc[w].pc = "done"
        /\ \A v \in Workers : disc[v].pc = "done"
        /\ experiments[3].status = "completed"


\* C28: release(w, k, completed) leaves every row as it is but the one active
\* row of worker w for key k, if there is one, which becomes released, or
\* completed when asked; it returns true exactly when it changed a row, and
\* false, changing nothing, also when another worker holds the key.
C28_ReleaseOnlyOwnActive ==
    /\ [](\A w \in Workers, k \in TopicKeys, completed \in BOOLEAN :
            LET own == {i \in 1..Len(reservations) :
                            /\ reservations[i].topic_key = k
                            /\ reservations[i].worker_id = w
                            /\ reservations[i].status = "active"}
                after == ReleaseRows(reservations, w, k, completed)
            IN
            /\ Cardinality(own) <= 1
            /\ Len(after) = Len(reservations)
            /\ \A i \in 1..Len(reservations) :
                after[i] = IF i \in own
                           THEN [reservations[i] EXCEPT
                                    !.status = IF completed THEN "completed"
                                               ELSE "released"]
                           ELSE reservations[i])
    /\ [][(resCall'.op = "release" /\ now' = now /\ round' = round)
          => LET changed == {i \in 1..Len(reservations) :
                                reservations'[i] # reservations[i]}
             IN
             /\ Len(reservations') = Len(reservations)
             /\ resCall'.ret <=> Cardinality(changed) = 1
             /\ ~resCall'.ret => reservations' = reservations
             /\ \A i \in changed :
                    /\ reservations[i].status = "active"
                    /\ reservations'[i].status \in {"released", "completed"}]_vars

\* C28 witness: a release returned true, its row is released, and the active
\* row of another worker is as it was.
C28_Witness ==
    /\ resCall = [op |-> "release", ret |-> TRUE]
    /\ \E i, j \in 1..Len(reservations) :
        /\ reservations[i].status = "released"
        /\ reservations[j].status = "active"
        /\ reservations[j].worker_id # reservations[i].worker_id

\* C29: a renew never moves expires_at of a row to an earlier time.
C29_RenewExtends ==
    [][(resCall'.op = "renew" /\ now' = now /\ round' = round)
       => \A i \in 1..Len(reservations) :
            reservations'[i].expires_at >= reservations[i].expires_at]_vars

\* C30: a reservation row is never deleted and keeps its key and its owner;
\* its status changes only from active: to expired in a sweep (expire_stale
\* or try_reserve) that found it past its expiry, to released or completed in
\* a release; a row that is expired, released or completed stays so.
C30_RowStatusOnlyLeavesActive ==
    [][/\ Len(reservations') >= Len(reservations)
       /\ \A i \in 1..Len(reservations) :
            /\ reservations'[i].topic_key = reservations[i].topic_key
            /\ reservations'[i].worker_id = reservations[i].worker_id
            /\ \/ reservations'[i].status = reservations[i].status
               \/ /\ reservations[i].status = "active"
                  /\ reservations'[i].status = "expired"
                  /\ reservations[i].expires_at < now
                  /\ resCall'.op \in {"expire_stale", "try_reserve"}
               \/ /\ reservations[i].status = "active"
                  /\ reservations'[i].status \in {"released", "completed"}
                  /\ resCall'.op = "release"]_vars

\* C30 witness: one row was expired by a sweep, another completed by a
\* release.
C30_Witness ==
    \E i, j \in 1..Len(reservations) :
        /\ reservations[i].status = "expired"
        /\ reservations[j].status = "completed"

\* ------------------------------------------------------------------ C31
\* C31: the store never holds two step results with the same experiment id
\* and step name, and a save for a pair that already has a row keeps the
\* number of rows and every row's key: it rewrites that row where it is.
SameResultKey(a, b) ==
    a.experiment_id = b.experiment_id /\ a.step_name = b.step_name

C31_OneRowPerStage ==
    /\ [](\A i, j \in 1..Len(step_results) :
            SameResultKey(step_results[i], step_results[j]) => i = j)
    /\ [][\A w \in Workers :
            (run[w].pc = "save" /\ run'[w].pc = "advance"
             /\ ResultRowsFor(step_results, run[w].exp_id,
                              StepName(run[w].step_num)) # {})
            => /\ Len(step_results') = Len(step_results)
               /\ \A i \in 1..Len(step_results) :
                    /\ SameResultKey(step_results'[i], step_results[i])
                    /\ (step_results'[i] # step_results[i]
                        => /\ step_results[i].experiment_id = run[w].exp_id
                           /\ step_results[i].step_name = StepName(run[w].step_num)
                           /\ step_results'[i].data = run[w].result)]_vars

\* Two invocations have both saved the result of the same stage of the same
\* experiment, and the store holds one row for it.
C31_Witness ==
    \E w1, w2 \in Workers :
        /\ w1 # w2
        /\ run[w1].pc = "advance" /\ run[w2].pc = "log_step_complete"
        /\ run[w1].exp_id = run[w2].exp_id
        /\ run[w1].step_num = run[w2].step_num
        /\ Cardinality(ResultRowsFor(step_results, run[w1].exp_id,
                                     StepName(run[w1].step_num))) = 1

\* ------------------------------------------------------------------ C32
\* The words of a text between its bars, read off the text position by
\* position: every stretch without a bar that a bar or an end of the text
\* bounds on both sides.
BarTokens(fp) ==
    {SubSeq(fp, i, j) : <<i, j>> \in
        {p \in (1..(Len(fp) + 1)) \X (0..Len(fp)) :
            /\ p[1] <= p[2] + 1
            /\ (p[1] = 1 \/ fp[p[1] - 1] = "|")
            /\ (p[2] = Len(fp) \/ fp[p[2] + 1] = "|")
            /\ \A k \in p[1]..p[2] : fp[k] # "|"}}

\* The fraction s equals n / d.
IsRatio(s, n, d) == s[2] > 0 /\ s[1] * d = n * s[2]

\* C32: jaccard_similarity(A, B) is |A n B| / |A u B| over the token sets of
\* the two fingerprints, and 0 when either fingerprint is empty; for a
\* fingerprint X that is not empty jaccard(X, X) is 1.
C32_JaccardIsRatio ==
    simCall.pc = "returned" =>
        LET A == BarTokens(simCall.fp1)
            B == BarTokens(simCall.fp2)
        IN /\ IF simCall.fp1 = <<>> \/ simCall.fp2 = <<>>
                  THEN IsRatio(simCall.result, 0, 1)
              ELSE IsRatio(simCall.result, Cardinality(A \cap B), Cardinality(A \cup B))
           /\ (simCall.fp1 = simCall.fp2 /\ simCall.fp1 # <<>>)
                => IsRatio(simCall.result, 1, 1)

\* a|b|c|d against a|b|e|f gave 2/6.
C32_Witness ==
    /\ simCall.pc = "returned"
    /\ simCall.fp1 = <<"a", "|", "b", "|", "c", "|", "d">>
    /\ simCall.fp2 = <<"a", "|", "b", "|", "e", "|", "f">>
    /\ IsRatio(simCall.result, 2, 6)

\* C32 as stated: jaccard(X, X) is 1 for every fingerprint X.
C32_IdenticalIsOne ==
    (simCall.pc = "returned" /\ simCall.fp1 = simCall.fp2)
        => IsRatio(simCall.result, 1, 1)

\* ------------------------------------------------------------------ C33
\* C33: with every invocation non-trial and review required, no stage
\* numbered above human_review is executed unless a review action has
\* approved the experiment. Checked in the form: as long as no review action
\* at all has been taken, no invocation has executed such a stage.
C33_NoStageAboveReviewUnapproved ==
    \A w \in Workers :
        (\E i \in 1..Len(run[w].executed) : run[w].executed[i] > HUMAN_REVIEW)
            => reviews > 0

\* ------------------------------------------------------------------ C34
\* C34: an invocation given stop_after = s executes no stage numbered above
\* s, whatever current_step and step results it finds at entry.
C34_NeverAboveStopAfter ==
    \A w \in Workers :
        run[w].stop_after # NoStop =>
            \A i \in 1..Len(run[w].executed) : run[w].executed[i] <= run[w].stop_after

\* ------------------------------------------------------------------ C35
\* C35: whenever an invocation of run_experiment executes stage 1 for an
\* idea experiment that run_discovery_batch created, the experiment's
\* idea_discovery result is in the store.
C35_DiscoveryResultBeforeStageOne ==
    \A w \in Workers :
        (/\ run[w].pc = "exec"
         /\ run[w].step_num = 1
         /\ run[w].exp_id \in 1..Len(experiments)
         /\ experiments[run[w].exp_id].title # BatchTitle)
        => ResultRowsFor(step_results, run[w].exp_id, "idea_discovery") # {}

\* ------------------------------------------------------------------ C36
\* C36: no run_all_pending sweep calls run_experiment on the bookkeeping
\* experiment titled discovery_batch, while the batch is under way or after
\* it has returned or raised.
C36_SweepSkipsBatchExperiment ==
    \A i \in 1..Len(sweep.called) :
        sweep.called[i] \in 1..Len(experiments)
            => experiments[sweep.called[i]].title # BatchTitle

\* ------------------------------------------------------------------ C37
\* C37: in run_experiment, a call through a stage's breaker that finds it
\* open does not invoke the stage's run; with_retry takes the circuit-open
\* error like any other: before the last attempt it sleeps the backoff delay
\* and tries again, at the last attempt it raises its retries-exhausted
\* error; the try block of the stage is left with an error only when
\* with_retry raised that one, and the invocation that raised has left the
\* experiment with status failed.
C37_OpenBreakerRetriedThenFailed ==
    /\ [][(calls'.seq # calls.seq /\ IsOpen(breaker, clock).open)
            => /\ ~calls'.last.invoked
               /\ calls'.last.result = "open"
               /\ retry.attempt < MAX_RETRIES => retry'.pc = "sleep"
               /\ retry.attempt = MAX_RETRIES
                    => retry'.pc = "idle" /\ retry'.outcome = "exhausted"]_vars
    /\ [][(retry.pc = "sleep" /\ retry' # retry)
            => /\ retry'.pc = "attempt"
               /\ retry'.attempt = retry.attempt + 1
               /\ (clock' - clock) \in SleepChoices(retry.attempt)]_vars
    /\ [][(AtBreakerStage(SeqWorker) /\ run'[SeqWorker].pc = "log_step_error")
            => retry.outcome = "exhausted"]_vars
    /\ [](\A w \in Workers :
            (run[w].pc = "done" /\ run[w].outcome = "raised")
                => experiments[run[w].exp_id].status = "failed")

\* An invocation raised at the stage of the breaker after the last call
\* through the breaker was refused, and the experiment is failed.
C37_Witness ==
    /\ run[SeqWorker].pc = "done"
    /\ run[SeqWorker].outcome = "raised"
    /\ run[SeqWorker].executed = <<1>>
    /\ calls.last.result = "open"
    /\ breaker.is_open
    /\ experiments[run[SeqWorker].exp_id].status = "failed"

\* ------------------------------------------------------------------ C38
\* C38: for a breaker driven through call (directly or by with_retry), in
\* every reachable state the breaker's open flag is set exactly when its
\* failure count is at least the failure threshold, and the count never
\* exceeds the threshold.
C38_OpenIffCountAtThreshold ==
    /\ breaker.is_open <=> breaker.failure_count >= FAILURE_THRESHOLD
    /\ breaker.failure_count <= FAILURE_THRESHOLD

\* The breaker is open with its count at the threshold after a call through
\* it has been refused.
C38_Witness ==
    /\ breaker.is_open
    /\ breaker.failure_count = FAILURE_THRESHOLD
    /\ calls.last.op = "call"
    /\ calls.last.result = "open"
    /\ ~calls.last.invoked

\* ------------------------------------------------------------------ C39
\* C39: a try_reserve call that returns false leaves the table of
\* reservations as it found it: no row is added, and no row that its sweep
\* expired inside the transaction stays expired.
C39_FailedReserveChangesNothing ==
    [][(resCall'.op = "try_reserve" /\ ~resCall'.ret /\ now' = now)
        => reservations' = reservations]_vars

\* A try_reserve has been refused and a row past its expiry is still active.
C39_Witness ==
    /\ resCall = [op |-> "try_reserve", ret |-> FALSE]
    /\ round.key = None
    /\ \E i, j \in 1..Len(reservations) :
        /\ IsStale(reservations[i], now)
        /\ reservations[j].status = "active"
        /\ ~IsStale(reservations[j], now)

\* ------------------------------------------------------------------ C40
\* C40: every invocation of run_experiment comes to its end when every
\* Step.run returns or raises: within one invocation the loop comes to each
\* stage at most once, the stage numbers it visits only growing, and the
\* run of a stage is invoked once per attempt of with_retry, whose attempts
\* are numbered 0 to max_retries and started once per visit.
C40_InvocationTerminates ==
    /\ \A w \in Workers : (run[w].pc \in InProgressPcs) ~> (run[w].pc = "done")
    /\ [][\A w \in Workers :
            (run'[w] # run[w] /\ run[w].pc \in InProgressPcs /\ run'[w].pc = "visit")
                => run'[w].step_num > run[w].step_num]_vars
    /\ [][(calls'.seq # calls.seq /\ calls'.last.invoked)
            => /\ retry.pc = "attempt"
               /\ retry.attempt \in 0..MAX_RETRIES
               /\ retry'.pc # "attempt"
               /\ calls'.seq = calls.seq + 1]_vars
    /\ [][(retry'.pc = "attempt" /\ retry # retry')
            => \/ retry.pc = "sleep" /\ retry'.attempt = retry.attempt + 1
               \/ /\ retry.pc = "idle" /\ retry.outcome = None
                  /\ retry'.attempt = 0
                  /\ AtBreakerStage(SeqWorker)]_vars

\* An invocation has come to its end after a stage whose run was invoked
\* max_retries + 1 times and failed each time.
C40_Witness ==
    /\ run[SeqWorker].pc = "done"
    /\ run[SeqWorker].outcome = "raised"
    /\ calls.seq = MAX_RETRIES + 1
    /\ calls.failures = MAX_RETRIES + 1
    /\ calls.last.invoked
====
